---- MODULE Spec2Model ----
(***************************************************************************)
(* Submission judging pipeline of the huebRE online-judge backend          *)
(* (problems/views.py): submit_code, its verdict aggregation loop, the     *)
(* test case loader, and the rows of the relational store it writes.       *)
(*                                                                         *)
(* Every request handler runs in its own gunicorn sync worker; the store   *)
(* is in Django's default autocommit mode (no transaction.atomic() and no  *)
(* select_for_update() anywhere in submit_code), so every ORM call is one  *)
(* atomic step and the steps of different requests interleave freely.      *)
(***************************************************************************)
EXTENDS Integers, Sequences, FiniteSets, TLC

(***************************************************************************)
(* Bounds of the model                                                     *)
(***************************************************************************)
\* database operations that may raise during one behaviour
MaxFaults == 1
\* workers that may be killed during one behaviour
MaxCrashes == 1
\* length of the result array scanned when the result codes vary
MaxLen == 5
\* length of the result array scanned when the resource usage varies
MaxPeakLen == 3

Requests == {"r1", "r2"}
Problems == {1, 2, 3, 4, 5}
Users == {"u1", "u2"}

(***************************************************************************)
(* Submission.STATUS_* (problems/models.py)                                *)
(***************************************************************************)
STATUS_ACCEPTED == 0
STATUS_WRONG_ANSWER == -1
STATUS_TIME_LIMIT_EXCEEDED == 1
STATUS_MEMORY_LIMIT_EXCEEDED == 3
STATUS_RUNTIME_ERROR == 4
STATUS_COMPILE_ERROR == 5
STATUS_SYSTEM_ERROR == 6
STATUS_JUDGING == 7

TerminalStatuses ==
    {STATUS_ACCEPTED, STATUS_WRONG_ANSWER, STATUS_TIME_LIMIT_EXCEEDED,
     STATUS_MEMORY_LIMIT_EXCEEDED, STATUS_RUNTIME_ERROR, STATUS_COMPILE_ERROR,
     STATUS_SYSTEM_ERROR}

\* Python's None for first_error_status: an integer that is no status
None == -100

Max(a, b) == IF a >= b THEN a ELSE b

(***************************************************************************)
(* Object storage and _load_testcases_from_minio                           *)
(*                                                                         *)
(* An object is [num, ext, body]: num is the file name without its suffix  *)
(* as a sequence of digits ("10" is <<1, 0>>), ext is "in" or "out", body  *)
(* is the decoded content (a sequence of characters, <<>> when empty) or   *)
(* Unreadable, a token no content equals, when get_object or decode        *)
(* raises.  A bucket prefix is                                             *)
(* [list_error, pages]: list_objects_v2 raises, or answers with the first  *)
(* page of the listing.                                                    *)
(***************************************************************************)
Unreadable == <<"Unreadable">>

Obj(num, ext, body) == [num |-> num, ext |-> ext, body |-> body]

\* Python's string order on the ordinals: "10" < "2"
RECURSIVE StrLess(_, _)
StrLess(a, b) ==
    IF a = <<>> THEN b # <<>>
    ELSE IF b = <<>> THEN FALSE
    ELSE IF Head(a) # Head(b) THEN Head(a) < Head(b)
    ELSE StrLess(Tail(a), Tail(b))

\* sorted(set(...)) of line 1400
RECURSIVE Sorted(_)
Sorted(S) ==
    IF S = {} THEN <<>>
    ELSE LET m == CHOOSE x \in S : \A y \in S \ {x} : StrLess(x, y)
         IN  <<m>> \o Sorted(S \ {m})

\* the loop body of lines 1403-1429 for one ordinal: the test cases it appends
TestcaseOf(contents, num) ==
    LET ins  == {o \in contents : o.ext = "in" /\ o.num = num}
        outs == {o \in contents : o.ext = "out" /\ o.num = num}
        in_unreadable == \E o \in ins : o.body = Unreadable
        input_content == IF ins = {} THEN <<>> ELSE (CHOOSE o \in ins : TRUE).body
        output_content ==
            IF outs = {} THEN <<>>
            ELSE LET b == (CHOOSE o \in outs : TRUE).body
                 IN  IF b = Unreadable THEN <<>> ELSE b
    IN  IF in_unreadable THEN <<>>                      \* continue
        ELSE IF input_content # <<>>
             THEN << [input |-> input_content, output |-> output_content] >>
             ELSE <<>>

RECURSIVE CollectTestcases(_, _)
CollectTestcases(contents, nums) ==
    IF nums = <<>> THEN <<>>
    ELSE TestcaseOf(contents, Head(nums)) \o CollectTestcases(contents, Tail(nums))

_load_testcases_from_minio(store) ==
    IF store.list_error THEN <<>>                       \* except ...: return []
    ELSE IF store.pages = <<>> \/ Head(store.pages) = {}
         THEN <<>>                                      \* 'Contents' not in response
         ELSE LET contents == Head(store.pages)
                  testcase_nums == Sorted({o.num : o \in contents})
              IN  CollectTestcases(contents, testcase_nums)

\* bucket prefixes the model starts from
StoreFull ==
    [list_error |-> FALSE,
     pages |-> << {Obj(<<1>>, "in", <<"a">>), Obj(<<1>>, "out", <<"b">>),
                   Obj(<<2>>, "in", <<"c">>)} >>]
StoreEmpty == [list_error |-> FALSE, pages |-> <<>>]
StoreListError ==
    [list_error |-> TRUE, pages |-> << {Obj(<<1>>, "in", <<"a">>)} >>]
StoreUnreadable ==
    [list_error |-> FALSE,
     pages |-> << {Obj(<<1>>, "in", Unreadable), Obj(<<1>>, "out", <<"b">>)} >>]
StoreOutOnly ==
    [list_error |-> FALSE, pages |-> << {Obj(<<1>>, "out", <<"b">>)} >>]

\* the bucket: one prefix per problem
InitialStorage ==
    (1 :> StoreFull) @@ (2 :> StoreEmpty) @@ (3 :> StoreListError)
        @@ (4 :> StoreUnreadable) @@ (5 :> StoreOutOnly)

(***************************************************************************)
(* The aggregation loop of submit_code (lines 1573-1604)                   *)
(***************************************************************************)
Result(code, cpu_time, memory) ==
    [result |-> code, cpu_time |-> cpu_time, memory |-> memory]

\* lines 1591-1600
Classify(result_code) ==
    IF result_code = -1 THEN STATUS_WRONG_ANSWER
    ELSE IF result_code = 1 \/ result_code = 2 THEN STATUS_TIME_LIMIT_EXCEEDED
    ELSE IF result_code = 3 THEN STATUS_MEMORY_LIMIT_EXCEEDED
    ELSE IF result_code = 4 THEN STATUS_RUNTIME_ERROR
    ELSE STATUS_SYSTEM_ERROR

\* lines 1574-1577
LoopInit ==
    [first_error_status |-> None, max_cpu_time_used |-> 0, max_memory_used |-> 0]

\* LoopBody without "and first_error_status is None": the last failure wins
LoopBodyLastError(l, result) ==
    [first_error_status |->
        IF result.result # 0
        THEN Classify(result.result)
        ELSE l.first_error_status,
     max_cpu_time_used |-> Max(l.max_cpu_time_used, result.cpu_time),
     max_memory_used |-> Max(l.max_memory_used, result.memory)]

\* LoopBody with the peaks no longer updated once a failure was recorded
LoopBodyStopsAtError(l, result) ==
    [first_error_status |->
        IF result.result # 0 /\ l.first_error_status = None
        THEN Classify(result.result)
        ELSE l.first_error_status,
     max_cpu_time_used |->
        IF l.first_error_status = None
        THEN Max(l.max_cpu_time_used, result.cpu_time) ELSE l.max_cpu_time_used,
     max_memory_used |->
        IF l.first_error_status = None
        THEN Max(l.max_memory_used, result.memory) ELSE l.max_memory_used]

\* one iteration, lines 1580-1600
LoopBody(l, result) ==
    [first_error_status |->
        IF result.result # 0 /\ l.first_error_status = None
        THEN Classify(result.result)
        ELSE l.first_error_status,
     max_cpu_time_used |-> Max(l.max_cpu_time_used, result.cpu_time),
     max_memory_used |-> Max(l.max_memory_used, result.memory)]

RECURSIVE Loop(_, _)
Loop(l, results) ==
    IF results = <<>> THEN l
    ELSE Loop(LoopBody(l, Head(results)), Tail(results))

\* lines 1603-1604
FinalStatus(l) ==
    IF l.first_error_status # None THEN l.first_error_status ELSE STATUS_ACCEPTED

(***************************************************************************)
(* judge_code as submit_code sees it: the outcomes it can return.  It      *)
(* never raises; submit_code passes a non-empty test_case list, so         *)
(* InvalidRequest cannot come back.  data_is_list is FALSE when the engine *)
(* answered without err and with "data": null, which judge_code hands on   *)
(* unchanged (result.get('data', []) is None) and the loop cannot iterate. *)
(***************************************************************************)
JudgeErrors == {"CompileError", "Timeout", "RequestError", "UnknownError", "JudgeClientError"}

JudgeFailure(error) ==
    [success |-> FALSE, error |-> error, data |-> <<>>, data_is_list |-> TRUE]
JudgeSuccess(data) ==
    [success |-> TRUE, error |-> "", data |-> data, data_is_list |-> TRUE]
JudgeSuccessNoList ==
    [success |-> TRUE, error |-> "", data |-> <<>>, data_is_list |-> FALSE]

\* per-test-case result arrays the engine answers with in the request model
EngineData ==
    { <<>>,
      << Result(0, 50, 1000) >>,
      << Result(-1, 50, 1000) >>,
      << Result(1, 900, 1000) >>,
      << Result(3, 50, 2000) >>,
      << Result(4, 50, 1000) >>,
      << Result(5, 50, 1000) >>,
      << Result(0, 50, 1000), Result(3, 900, 500), Result(-1, 200, 2000) >> }

JudgeOutcomes ==
    {JudgeFailure(e) : e \in JudgeErrors}
        \cup {JudgeSuccess(d) : d \in EngineData}
        \cup {JudgeSuccessNoList}

\* the outcomes drawn when requests run concurrently
ConcOutcomes ==
    { JudgeFailure("CompileError"), JudgeFailure("Timeout"),
      JudgeSuccess(<< Result(0, 50, 1000) >>),
      JudgeSuccess(<< Result(-1, 50, 1000) >>),
      JudgeSuccessNoList }

(***************************************************************************)
(* State                                                                   *)
(***************************************************************************)
VARIABLES
    db_submission,     \* table submission: row i has submission_id i
    db_problem_data,   \* table problem_data, one row per problem
    db_user,           \* table user: the two counters of each user
    storage,           \* the test case prefix of each problem in the bucket
    pc,                \* where each request is in submit_code
    alive,             \* FALSE once the request's worker was killed
    problem_id,        \* URL argument of each request
    user,              \* request.user: the User object read by jwt_required
    submission,        \* the request's Submission object
    judge_result,      \* what judge_code returned
    final_status,
    problem_data,      \* the ProblemData object read by get_or_create
    exc,               \* the statement that raised into "except Exception"
    response,          \* the HTTP response, status 0 while there is none
    judge_calls,       \* calls of judge_code made by each request
    written,           \* history: the save() calls of each request that took effect
    faults,            \* database operations that raised so far
    crashes,           \* workers killed so far
    test_results,      \* aggregation model: the result array scanned so far
    loop,              \* aggregation model: the loop's variables
    judge_call,        \* judge_code on its own: the call being made and what it returns
    run,               \* run_test: the self-test request and its response
    load,              \* _load_testcases_from_minio on its own: the prefix and the result
    lang,              \* _get_language_config on its own: the identifiers resolved so far
    edit,              \* update_problem: the request and the objects it holds
    db_user_motto,     \* table user: the profile column motto of each user
    profile            \* update_profile: the request and the User object it holds

dbvars == <<db_submission, db_problem_data, db_user, storage>>
reqvars == <<pc, alive, problem_id, user, submission, judge_result, final_status,
             problem_data, exc, response, judge_calls, written>>
envvars == <<faults, crashes>>
aggvars == <<test_results, loop>>
sidevars == <<load, lang, edit, db_user_motto, profile>>
unitvars == <<judge_call, run, sidevars>>
vars == <<dbvars, reqvars, envvars, aggvars, unitvars>>

NoResponse == [status |-> 0, message |-> ""]
NoUser == [id |-> "", total_submissions |-> 0, accepted_submissions |-> 0,
           motto |-> <<>>]
NoSubmission ==
    [submission_id |-> 0, status |-> STATUS_JUDGING, cpu_time |-> 0, memory |-> 0,
     result |-> [kind |-> "empty"]]
NoJudgeResult == JudgeFailure("")
\* ProblemData field defaults (problems/models.py), what get_or_create creates
ProblemDataDefaults ==
    [submission |-> 0, ac |-> 0, wr |-> 0, tle |-> 0, mle |-> 0, re |-> 0, ce |-> 0,
     title |-> <<>>]

\* no call of judge_code was made yet
NoCall == [pc |-> "idle", posts |-> 0, calls |-> 0]
\* no self-test request has arrived yet
NoRun == [pc |-> "idle"]
\* the loader has not been called yet
NoLoad == [pc |-> "idle"]
\* no update_problem request has arrived yet
NoEdit == [pc |-> "idle"]
\* no update_profile request has arrived yet
NoProfile == [pc |-> "idle"]

\* the start of the variables of the operations modelled on their own
SideInit ==
    /\ load = NoLoad
    /\ lang = <<>>
    /\ edit = NoEdit
    /\ db_user_motto = [u \in Users |-> <<>>]
    /\ profile = NoProfile

Init ==
    /\ db_submission = <<>>
    /\ db_problem_data = [p \in Problems |-> ProblemDataDefaults]
    /\ db_user = [u \in Users |-> [total_submissions |-> 0, accepted_submissions |-> 0]]
    /\ storage = InitialStorage
    /\ pc = [r \in Requests |-> "idle"]
    /\ alive = [r \in Requests |-> TRUE]
    /\ problem_id = [r \in Requests |-> 0]
    /\ user = [r \in Requests |-> NoUser]
    /\ submission = [r \in Requests |-> NoSubmission]
    /\ judge_result = [r \in Requests |-> NoJudgeResult]
    /\ final_status = [r \in Requests |-> STATUS_JUDGING]
    /\ problem_data = [r \in Requests |-> ProblemDataDefaults]
    /\ exc = [r \in Requests |-> "none"]
    /\ response = [r \in Requests |-> NoResponse]
    /\ written = [r \in Requests |-> {}]
    /\ judge_calls = [r \in Requests |-> 0]
    /\ faults = 0
    /\ crashes = 0
    /\ test_results = <<>>
    /\ loop = LoopInit
    /\ judge_call = NoCall
    /\ run = NoRun
    /\ SideInit

(***************************************************************************)
(* Request inputs                                                          *)
(***************************************************************************)
\* str.strip() on a sequence of characters
RECURSIVE LStrip(_)
LStrip(s) == IF s # <<>> /\ Head(s) = " " THEN LStrip(Tail(s)) ELSE s
RECURSIVE RStrip(_)
RStrip(s) ==
    IF s # <<>> /\ s[Len(s)] = " " THEN RStrip(SubSeq(s, 1, Len(s) - 1)) ELSE s
Strip(s) == RStrip(LStrip(s))

SupportedLanguages == {"cpp", "java", "python", "javascript"}

Codes == {<<>>, <<" ">>, <<"x">>}
LanguageInputs == SupportedLanguages \cup {"", "rust"}
\* problem ids a URL may carry: 9 names no problem
ProblemIdInputs == Problems \cup {9}

Running(r) == alive[r] /\ pc[r] \notin {"idle", "done"}

\* the view returns: the response goes out and the view's objects are dropped
\* (the request keeps its URL argument, the id of request.user and the id of
\* the row it created, for reference)
Return(r, status, message) ==
    /\ response' = [response EXCEPT ![r] = [status |-> status, message |-> message]]
    /\ pc' = [pc EXCEPT ![r] = "done"]
    /\ user' = [user EXCEPT ![r] = [NoUser EXCEPT !.id = user[r].id]]
    /\ submission' = [submission EXCEPT ![r] =
            [NoSubmission EXCEPT !.submission_id = submission[r].submission_id]]
    /\ judge_result' = [judge_result EXCEPT ![r] = NoJudgeResult]
    /\ final_status' = [final_status EXCEPT ![r] = STATUS_JUDGING]
    /\ problem_data' = [problem_data EXCEPT ![r] = ProblemDataDefaults]

(***************************************************************************)
(* jwt_required (users/views.py): request.user = User.objects.get(id=...)  *)
(***************************************************************************)
JwtRequired(r, u) ==
    /\ alive[r] /\ pc[r] = "idle"
    /\ user' = [user EXCEPT ![r] =
                    [id |-> u,
                     total_submissions |-> db_user[u].total_submissions,
                     accepted_submissions |-> db_user[u].accepted_submissions,
                     motto |-> db_user_motto[u]]]
    /\ pc' = [pc EXCEPT ![r] = "view"]
    /\ UNCHANGED <<dbvars, alive, problem_id, submission, judge_result, final_status,
                   problem_data, exc, response, judge_calls, written, envvars,
                   aggvars, unitvars>>

(***************************************************************************)
(* submit_code, lines 1468-1522: validation, test case loading and         *)
(* Submission.objects.create                                               *)
(***************************************************************************)
\* Rejection with "if not code" applied to the code as sent, not stripped
RejectionKeepsBlank(pid, code, language) ==
    IF pid \notin Problems THEN "problem_not_found"
    ELSE IF code = <<>> THEN "empty_code"
    ELSE IF language = "" THEN "empty_language"
    ELSE IF language \notin SupportedLanguages THEN "unsupported_language"
    ELSE IF _load_testcases_from_minio(storage[pid]) = <<>> THEN "no_testcases"
    ELSE ""

\* Rejection without "if not test_cases" of line 1506
RejectionKeepsEmpty(pid, code, language) ==
    IF pid \notin Problems THEN "problem_not_found"
    ELSE IF Strip(code) = <<>> THEN "empty_code"
    ELSE IF language = "" THEN "empty_language"
    ELSE IF language \notin SupportedLanguages THEN "unsupported_language"
    ELSE ""

\* the early return the request takes, "" when it passes every check
Rejection(pid, code, language) ==
    IF pid \notin Problems THEN "problem_not_found"
    ELSE IF Strip(code) = <<>> THEN "empty_code"
    ELSE IF language = "" THEN "empty_language"
    ELSE IF language \notin SupportedLanguages THEN "unsupported_language"
    ELSE IF _load_testcases_from_minio(storage[pid]) = <<>> THEN "no_testcases"
    ELSE ""

\* the status of each _json_error of lines 1477-1507
RejectionStatus(rejection) == IF rejection = "problem_not_found" THEN 404 ELSE 400

SubmitCode(r, pid, code, language) ==
    /\ alive[r] /\ pc[r] = "view"
    /\ problem_id' = [problem_id EXCEPT ![r] = pid]
    /\ IF Rejection(pid, code, language) # ""
       THEN /\ Return(r, RejectionStatus(Rejection(pid, code, language)),
                      Rejection(pid, code, language))
            /\ UNCHANGED db_submission
       ELSE /\ db_submission' =
                Append(db_submission,
                       [problem |-> pid, user |-> user[r].id, status |-> STATUS_JUDGING,
                        cpu_time |-> 0, memory |-> 0, result |-> [kind |-> "empty"]])
            /\ submission' = [submission EXCEPT ![r] =
                    [NoSubmission EXCEPT !.submission_id = Len(db_submission) + 1]]
            /\ pc' = [pc EXCEPT ![r] = "judge"]
            /\ UNCHANGED <<response, user, judge_result, final_status, problem_data>>
    /\ UNCHANGED <<db_problem_data, db_user, storage, alive, exc, judge_calls,
                   written, envvars, aggvars, unitvars>>

(***************************************************************************)
(* submit_code, lines 1524-1604: the judge_code call, the failure branch's *)
(* status and the aggregation loop                                         *)
(***************************************************************************)
\* lines 1542-1545
FailureStatus(error_type) ==
    IF error_type = "CompileError" THEN STATUS_COMPILE_ERROR ELSE STATUS_SYSTEM_ERROR

JudgeCode(r, outcome) ==
    /\ Running(r) /\ pc[r] = "judge"
    /\ judge_calls' = [judge_calls EXCEPT ![r] = @ + 1]
    /\ judge_result' = [judge_result EXCEPT ![r] = outcome]
    /\ IF ~outcome.success
       THEN /\ final_status' = [final_status EXCEPT ![r] = FailureStatus(outcome.error)]
            /\ pc' = [pc EXCEPT ![r] = "fail_save_submission"]
            /\ UNCHANGED exc
       ELSE IF ~outcome.data_is_list
       THEN \* "for result in test_results" raises TypeError
            /\ exc' = [exc EXCEPT ![r] = "loop"]
            /\ pc' = [pc EXCEPT ![r] = "except_save_submission"]
            /\ UNCHANGED final_status
       ELSE /\ final_status' =
                [final_status EXCEPT ![r] = FinalStatus(Loop(LoopInit, outcome.data))]
            /\ pc' = [pc EXCEPT ![r] = "save_submission"]
            /\ UNCHANGED exc
    /\ UNCHANGED <<dbvars, alive, problem_id, user, submission, problem_data,
                   response, written, envvars, aggvars, unitvars>>

\* submission.save(): every column of the row is written from the object
SaveRow(rows, obj) ==
    [rows EXCEPT ![obj.submission_id] =
        [@ EXCEPT !.status = obj.status, !.cpu_time = obj.cpu_time,
                  !.memory = obj.memory, !.result = obj.result]]

\* sum(1 for r in test_results if r.get('result', -1) == 0)
RECURSIVE PassedTests(_)
PassedTests(results) ==
    IF results = <<>> THEN 0
    ELSE (IF Head(results).result = 0 THEN 1 ELSE 0) + PassedTests(Tail(results))

(***************************************************************************)
(* submit_code, lines 1606-1650: the judged branch                         *)
(***************************************************************************)
\* lines 1607-1614 on the Submission object
Judged(obj, status, l, results) ==
    [obj EXCEPT
        !.status = status,
        !.cpu_time = l.max_cpu_time_used,
        !.memory = l.max_memory_used,
        !.result = [kind |-> "test_results",
                    total_tests |-> Len(results),
                    passed_tests |-> PassedTests(results)]]

SaveSubmission(r) ==
    /\ Running(r) /\ pc[r] = "save_submission"
    /\ LET obj == Judged(submission[r], final_status[r],
                         Loop(LoopInit, judge_result[r].data), judge_result[r].data)
       IN  /\ submission' = [submission EXCEPT ![r] = obj]
           /\ db_submission' = SaveRow(db_submission, obj)
    /\ written' = [written EXCEPT ![r] = @ \cup {"submission"}]
    /\ pc' = [pc EXCEPT ![r] = "get_problem_data"]
    /\ UNCHANGED <<db_problem_data, db_user, storage, alive, problem_id, user,
                   judge_result, final_status, problem_data, exc, response,
                   judge_calls, envvars, aggvars, unitvars>>

\* ProblemData.objects.get_or_create(problem=problem)
GetOrCreate(r) ==
    /\ problem_data' = [problem_data EXCEPT ![r] = db_problem_data[problem_id[r]]]
    /\ UNCHANGED <<dbvars, alive, problem_id, user, submission, judge_result,
                   final_status, exc, response, judge_calls, written, envvars,
                   aggvars, unitvars>>

GetProblemData(r) ==
    /\ Running(r) /\ pc[r] = "get_problem_data"
    /\ GetOrCreate(r)
    /\ pc' = [pc EXCEPT ![r] = "save_problem_data"]

\* CountStatus with the wr branch of lines 1623-1624 missing
CountStatusDropsWrong(pd, status) ==
    LET counted == [pd EXCEPT !.submission = @ + 1]
    IN  IF status = STATUS_ACCEPTED THEN [counted EXCEPT !.ac = @ + 1]
        ELSE IF status = STATUS_TIME_LIMIT_EXCEEDED THEN [counted EXCEPT !.tle = @ + 1]
        ELSE IF status = STATUS_MEMORY_LIMIT_EXCEEDED THEN [counted EXCEPT !.mle = @ + 1]
        ELSE IF status = STATUS_RUNTIME_ERROR THEN [counted EXCEPT !.re = @ + 1]
        ELSE IF status = STATUS_COMPILE_ERROR THEN [counted EXCEPT !.ce = @ + 1]
        ELSE counted

\* CountStatus with an Accepted submission counted in ac only
CountStatusForgetsTotal(pd, status) ==
    IF status = STATUS_ACCEPTED THEN [pd EXCEPT !.ac = @ + 1]
    ELSE [pd EXCEPT !.submission = @ + 1]

\* lines 1619-1632 on the ProblemData object
CountStatus(pd, status) ==
    LET counted == [pd EXCEPT !.submission = @ + 1]
    IN  IF status = STATUS_ACCEPTED THEN [counted EXCEPT !.ac = @ + 1]
        ELSE IF status = STATUS_WRONG_ANSWER THEN [counted EXCEPT !.wr = @ + 1]
        ELSE IF status = STATUS_TIME_LIMIT_EXCEEDED THEN [counted EXCEPT !.tle = @ + 1]
        ELSE IF status = STATUS_MEMORY_LIMIT_EXCEEDED THEN [counted EXCEPT !.mle = @ + 1]
        ELSE IF status = STATUS_RUNTIME_ERROR THEN [counted EXCEPT !.re = @ + 1]
        ELSE IF status = STATUS_COMPILE_ERROR THEN [counted EXCEPT !.ce = @ + 1]
        ELSE counted

SaveProblemData(r) ==
    /\ Running(r) /\ pc[r] = "save_problem_data"
    /\ LET pd == CountStatus(problem_data[r], final_status[r])
       IN  /\ problem_data' = [problem_data EXCEPT ![r] = pd]
           /\ db_problem_data' = [db_problem_data EXCEPT ![problem_id[r]] = pd]
    /\ written' = [written EXCEPT ![r] = @ \cup {"problem_data"}]
    /\ pc' = [pc EXCEPT ![r] = "save_user"]
    /\ UNCHANGED <<db_submission, db_user, storage, alive, problem_id, user, submission,
                   judge_result, final_status, exc, response, judge_calls, envvars,
                   aggvars, unitvars>>

\* CountUser without the condition of line 1638
CountUserAlwaysAccepted(u, status) ==
    [u EXCEPT !.total_submissions = @ + 1, !.accepted_submissions = @ + 1]

\* lines 1637-1639 on request.user
CountUser(u, status) ==
    [u EXCEPT !.total_submissions = @ + 1,
              !.accepted_submissions = IF status = STATUS_ACCEPTED THEN @ + 1 ELSE @]

\* SaveUser with a plain user.save(), which writes every column of the row
SaveUserAllFields(r) ==
    /\ Running(r) /\ pc[r] = "save_user"
    /\ LET u == CountUser(user[r], final_status[r])
       IN  /\ db_user' = [db_user EXCEPT ![u.id] =
                             [total_submissions |-> u.total_submissions,
                              accepted_submissions |-> u.accepted_submissions]]
           /\ db_user_motto' = [db_user_motto EXCEPT ![u.id] = u.motto]
    /\ written' = [written EXCEPT ![r] = @ \cup {"user"}]
    /\ Return(r, 200, "judged")
    /\ UNCHANGED <<db_submission, db_problem_data, storage, alive, problem_id, exc,
                   judge_calls, envvars, aggvars, judge_call, run, load, lang, edit,
                   profile>>

\* user.save(update_fields=['total_submissions', 'accepted_submissions'])
SaveUser(r) ==
    /\ Running(r) /\ pc[r] = "save_user"
    /\ LET u == CountUser(user[r], final_status[r])
       IN  db_user' = [db_user EXCEPT ![u.id] =
                          [total_submissions |-> u.total_submissions,
                           accepted_submissions |-> u.accepted_submissions]]
    /\ written' = [written EXCEPT ![r] = @ \cup {"user"}]
    /\ Return(r, 200, "judged")
    /\ UNCHANGED <<db_submission, db_problem_data, storage, alive, problem_id, exc,
                   judge_calls, envvars, aggvars, unitvars>>

(***************************************************************************)
(* submit_code, lines 1536-1568: the branch taken when judge_code failed   *)
(***************************************************************************)
FailSaveSubmission(r) ==
    /\ Running(r) /\ pc[r] = "fail_save_submission"
    /\ LET obj == [submission[r] EXCEPT
                     !.status = final_status[r],
                     !.result = [kind |-> "judge_error", error |-> judge_result[r].error]]
       IN  /\ submission' = [submission EXCEPT ![r] = obj]
           /\ db_submission' = SaveRow(db_submission, obj)
    /\ written' = [written EXCEPT ![r] = @ \cup {"fail_submission"}]
    /\ pc' = [pc EXCEPT ![r] = "fail_get_problem_data"]
    /\ UNCHANGED <<db_problem_data, db_user, storage, alive, problem_id, user,
                   judge_result, final_status, problem_data, exc, response,
                   judge_calls, envvars, aggvars, unitvars>>

FailGetProblemData(r) ==
    /\ Running(r) /\ pc[r] = "fail_get_problem_data"
    /\ GetOrCreate(r)
    /\ pc' = [pc EXCEPT ![r] = "fail_save_problem_data"]

\* CountFailure without the condition of line 1559
CountFailureAlwaysCe(pd, status) ==
    [pd EXCEPT !.submission = @ + 1, !.ce = @ + 1]

\* lines 1558-1560
CountFailure(pd, status) ==
    [pd EXCEPT !.submission = @ + 1,
               !.ce = IF status = STATUS_COMPILE_ERROR THEN @ + 1 ELSE @]

FailSaveProblemData(r) ==
    /\ Running(r) /\ pc[r] = "fail_save_problem_data"
    /\ db_problem_data' = [db_problem_data EXCEPT ![problem_id[r]] =
                              CountFailure(problem_data[r], final_status[r])]
    /\ written' = [written EXCEPT ![r] = @ \cup {"fail_problem_data"}]
    /\ Return(r, 200, "judged")
    /\ UNCHANGED <<db_submission, db_user, storage, alive, problem_id, exc,
                   judge_calls, envvars, aggvars, unitvars>>

(***************************************************************************)
(* submit_code, lines 1652-1663: except Exception                          *)
(***************************************************************************)
ExceptSaveSubmission(r) ==
    /\ Running(r) /\ pc[r] = "except_save_submission"
    /\ LET obj == [submission[r] EXCEPT
                     !.status = STATUS_SYSTEM_ERROR,
                     !.result = [kind |-> "exception", error |-> exc[r]]]
       IN  /\ submission' = [submission EXCEPT ![r] = obj]
           /\ db_submission' = SaveRow(db_submission, obj)
    /\ written' = [written EXCEPT ![r] = @ \cup {"except_submission"}]
    /\ pc' = [pc EXCEPT ![r] = "except_get_problem_data"]
    /\ UNCHANGED <<db_problem_data, db_user, storage, alive, problem_id, user,
                   judge_result, final_status, problem_data, exc, response,
                   judge_calls, envvars, aggvars, unitvars>>

ExceptGetProblemData(r) ==
    /\ Running(r) /\ pc[r] = "except_get_problem_data"
    /\ GetOrCreate(r)
    /\ pc' = [pc EXCEPT ![r] = "except_save_problem_data"]

\* CountException counting the exception as a compile error too
CountExceptionAlsoCe(pd) == [pd EXCEPT !.submission = @ + 1, !.ce = @ + 1]

\* line 1660
CountException(pd) == [pd EXCEPT !.submission = @ + 1]

ExceptSaveProblemData(r) ==
    /\ Running(r) /\ pc[r] = "except_save_problem_data"
    /\ db_problem_data' = [db_problem_data EXCEPT ![problem_id[r]] =
                              CountException(problem_data[r])]
    /\ written' = [written EXCEPT ![r] = @ \cup {"except_problem_data"}]
    /\ Return(r, 500, "judge_failed")
    /\ UNCHANGED <<db_submission, db_user, storage, alive, problem_id, exc,
                   judge_calls, envvars, aggvars, unitvars>>

(***************************************************************************)
(* The environment: an ORM call raises (OperationalError on a lost         *)
(* connection or a lock timeout, DatabaseError from                        *)
(* user.save(update_fields=...) when the account was deleted meanwhile),   *)
(* and gunicorn kills a sync worker whose request outlasts timeout = 60,   *)
(* the very time judge_code waits for the engine.                          *)
(***************************************************************************)
TryStatements ==
    {"save_submission", "get_problem_data", "save_problem_data", "save_user",
     "fail_save_submission", "fail_get_problem_data", "fail_save_problem_data"}
ExceptStatements ==
    {"except_save_submission", "except_get_problem_data", "except_save_problem_data"}

\* the ORM call the request is about to make raises instead of taking effect:
\* inside try it is caught by "except Exception" of line 1652
RaiseInTry(r) ==
    /\ Running(r) /\ faults < MaxFaults
    /\ pc[r] \in TryStatements
    /\ faults' = faults + 1
    /\ exc' = [exc EXCEPT ![r] = pc[r]]
    /\ pc' = [pc EXCEPT ![r] = "except_save_submission"]
    /\ UNCHANGED <<dbvars, alive, problem_id, user, submission, judge_result,
                   final_status, problem_data, response, judge_calls, written, crashes,
                   aggvars, unitvars>>

\* inside the handler it leaves the view, and "except Exception" of jwt_required
\* (users/views.py line 187), which wraps the view call, answers 401
RaiseInExcept(r) ==
    /\ Running(r) /\ faults < MaxFaults
    /\ pc[r] \in ExceptStatements
    /\ faults' = faults + 1
    /\ exc' = [exc EXCEPT ![r] = pc[r]]
    /\ Return(r, 401, "unauthorized")
    /\ UNCHANGED <<dbvars, alive, problem_id, judge_calls, written, crashes, aggvars, unitvars>>

\* the worker dies where it is; what it held in memory is gone
Kill(r) ==
    /\ Running(r) /\ pc[r] # "view" /\ crashes < MaxCrashes
    /\ crashes' = crashes + 1
    /\ alive' = [alive EXCEPT ![r] = FALSE]
    /\ user' = [user EXCEPT ![r] = [NoUser EXCEPT !.id = user[r].id]]
    /\ submission' = [submission EXCEPT ![r] =
            [NoSubmission EXCEPT !.submission_id = submission[r].submission_id]]
    /\ judge_result' = [judge_result EXCEPT ![r] = NoJudgeResult]
    /\ final_status' = [final_status EXCEPT ![r] = STATUS_JUDGING]
    /\ problem_data' = [problem_data EXCEPT ![r] = ProblemDataDefaults]
    /\ UNCHANGED <<dbvars, pc, problem_id, exc, response, judge_calls, written, faults,
                   aggvars, unitvars>>

(***************************************************************************)
(* Specifications                                                          *)
(***************************************************************************)
\* the statements of submit_code after the judge_code call
Persist(r) ==
    \/ SaveSubmission(r)
    \/ GetProblemData(r)
    \/ SaveProblemData(r)
    \/ SaveUser(r)
    \/ FailSaveSubmission(r)
    \/ FailGetProblemData(r)
    \/ FailSaveProblemData(r)
    \/ ExceptSaveSubmission(r)
    \/ ExceptGetProblemData(r)
    \/ ExceptSaveProblemData(r)

\* no other request is in flight
Alone(r) == \A q \in Requests \ {r} : ~Running(q)

\* a request arrives while no other is being served
JwtRequiredAlone(r, u) == Alone(r) /\ JwtRequired(r, u)

\* Requests served one after another, with every engine outcome
Next ==
    \E r \in Requests :
        \/ \E u \in Users : JwtRequiredAlone(r, u)
        \/ \E pid \in ProblemIdInputs, code \in Codes, language \in LanguageInputs :
                SubmitCode(r, pid, code, language)
        \/ \E outcome \in JudgeOutcomes : JudgeCode(r, outcome)
        \/ Persist(r)
        \/ RaiseInTry(r)
        \/ RaiseInExcept(r)
        \/ Kill(r)

Spec == Init /\ [][Next]_vars

\* Requests served by concurrent workers
ConcNext ==
    \E r \in Requests :
        \/ \E u \in Users : JwtRequired(r, u)
        \/ \E pid \in ProblemIdInputs, code \in Codes, language \in LanguageInputs :
                SubmitCode(r, pid, code, language)
        \/ \E outcome \in ConcOutcomes : JudgeCode(r, outcome)
        \/ Persist(r)
        \/ RaiseInTry(r)
        \/ RaiseInExcept(r)
        \/ Kill(r)

ConcSpec == Init /\ [][ConcNext]_vars

(***************************************************************************)
(* The aggregation loop on its own: request "r1" has created its row, and  *)
(* judge_code has succeeded; the loop of lines 1579-1600 scans a result    *)
(* array one element at a time, then lines 1603-1615 finalize the row.     *)
(***************************************************************************)
ResultCodes == {-1, 0, 1, 2, 3, 4, 5, 7}
PeakCodes == {0, -1, 3}
CpuTimes == {50, 200, 900}
Memories == {500, 1000, 2000}

LoopStart ==
    /\ db_submission =
          << [problem |-> 1, user |-> "u1", status |-> STATUS_JUDGING,
              cpu_time |-> 0, memory |-> 0, result |-> [kind |-> "empty"]] >>
    /\ db_problem_data = [p \in Problems |-> ProblemDataDefaults]
    /\ db_user = [u \in Users |-> [total_submissions |-> 0, accepted_submissions |-> 0]]
    /\ storage = InitialStorage
    /\ pc = [r \in Requests |-> IF r = "r1" THEN "loop" ELSE "idle"]
    /\ alive = [r \in Requests |-> TRUE]
    /\ problem_id = [r \in Requests |-> IF r = "r1" THEN 1 ELSE 0]
    /\ user = [r \in Requests |-> IF r = "r1" THEN [NoUser EXCEPT !.id = "u1"] ELSE NoUser]
    /\ submission = [r \in Requests |->
                        IF r = "r1" THEN [NoSubmission EXCEPT !.submission_id = 1]
                        ELSE NoSubmission]
    /\ judge_result = [r \in Requests |-> NoJudgeResult]
    /\ final_status = [r \in Requests |-> STATUS_JUDGING]
    /\ problem_data = [r \in Requests |-> ProblemDataDefaults]
    /\ exc = [r \in Requests |-> "none"]
    /\ response = [r \in Requests |-> NoResponse]
    /\ written = [r \in Requests |-> {}]
    /\ judge_calls = [r \in Requests |-> IF r = "r1" THEN 1 ELSE 0]
    /\ faults = 0
    /\ crashes = 0
    /\ test_results = <<>>
    /\ loop = LoopInit
    /\ judge_call = NoCall
    /\ run = NoRun
    /\ SideInit

\* one iteration of the loop on the next element of the array
Scan(result) ==
    /\ pc["r1"] = "loop"
    /\ test_results' = Append(test_results, result)
    /\ loop' = LoopBody(loop, result)
    /\ UNCHANGED <<dbvars, reqvars, envvars, unitvars>>

\* the array is exhausted: lines 1603-1615
EndLoop ==
    /\ pc["r1"] = "loop"
    /\ LET obj == Judged(submission["r1"], FinalStatus(loop), loop, test_results)
       IN  /\ submission' = [submission EXCEPT !["r1"] = obj]
           /\ db_submission' = SaveRow(db_submission, obj)
    /\ written' = [written EXCEPT !["r1"] = @ \cup {"submission"}]
    /\ final_status' = [final_status EXCEPT !["r1"] = FinalStatus(loop)]
    /\ judge_result' = [judge_result EXCEPT !["r1"] = JudgeSuccess(test_results)]
    /\ pc' = [pc EXCEPT !["r1"] = "get_problem_data"]
    /\ UNCHANGED <<db_problem_data, db_user, storage, alive, problem_id, user,
                   problem_data, exc, response, judge_calls, envvars, aggvars, unitvars>>

ScanCode(code) ==
    /\ Len(test_results) < MaxLen
    /\ Scan(Result(code, 50, 1000))

ScanUsage(code, cpu_time, memory) ==
    /\ Len(test_results) < MaxPeakLen
    /\ Scan(Result(code, cpu_time, memory))

AggNext ==
    \/ \E code \in ResultCodes : ScanCode(code)
    \/ EndLoop

AggSpec == LoopStart /\ [][AggNext]_vars

PeakNext ==
    \/ \E code \in PeakCodes, cpu_time \in CpuTimes, memory \in Memories :
            ScanUsage(code, cpu_time, memory)
    \/ EndLoop

PeakSpec == LoopStart /\ [][PeakNext]_vars

(***************************************************************************)
(* judge_code (lines 1004-1155) on its own                                 *)
(*                                                                         *)
(* An optional argument or JSON member is [given, value]: given is FALSE   *)
(* for None, null or a missing key.  A JSON "data" member is               *)
(* [type, text, items]: type is "absent", "null", "str", "dict" or "list"; *)
(* text is the string, or the dict's "message" ("" when it has none);      *)
(* items is the list.  A message is [kind, detail].                        *)
(***************************************************************************)
Absent == [given |-> FALSE, value |-> <<>>]
AbsentStr == [given |-> FALSE, value |-> ""]
Given(value) == [given |-> TRUE, value |-> value]
\* bool(x) of an optional list
Truthy(x) == x.given /\ x.value # <<>>
\* bool(x) of an optional string
TruthyStr(x) == x.given /\ x.value # ""

AbsentData == [type |-> "absent", text |-> "", items |-> <<>>]
NullData == [type |-> "null", text |-> "", items |-> <<>>]
StrData(text) == [type |-> "str", text |-> text, items |-> <<>>]
DictData(message) == [type |-> "dict", text |-> message, items |-> <<>>]
ListData(items) == [type |-> "list", text |-> "", items |-> items]
\* bool(data): the dicts drawn here are not empty
TruthyData(data) ==
    \/ data.type = "str" /\ data.text # ""
    \/ data.type = "dict"
    \/ data.type = "list" /\ data.items # <<>>

NoMessage == [kind |-> "", detail |-> ""]
\* the dict judge_code returns; a key that is missing reads as AbsentData / NoMessage
JudgeReturn(success, error, message, data) ==
    [success |-> success, error |-> error, message |-> message, data |-> data]

\* RequestDataKey with "elif test_case is not None"
RequestDataKeyEmptyList(test_case, test_case_id) ==
    IF TruthyStr(test_case_id) THEN "test_case_id"
    ELSE IF test_case.given THEN "test_case"
    ELSE ""

\* lines 1074-1084: the test case member request_data gets, "" when the
\* request is invalid
RequestDataKey(test_case, test_case_id) ==
    IF TruthyStr(test_case_id) THEN "test_case_id"
    ELSE IF Truthy(test_case) THEN "test_case"
    ELSE ""

\* what requests.post, raise_for_status and response.json() do with a call:
\* exception is what requests.post raises ("" when it returns), status_code
\* and body are the response; json_error_is_request_exception tells whether
\* the installed requests derives its JSONDecodeError from RequestException
\* (2.27 and later) or lets the ValueError of the json module through
Reply(exception, status_code, body, json_error_is_request_exception) ==
    [exception |-> exception, status_code |-> status_code, body |-> body,
     json_error_is_request_exception |-> json_error_is_request_exception]
\* a response body: json is "invalid", "list" (valid JSON that is no object)
\* or "object", err and data are the object's members
Body(json, err, data) == [json |-> json, err |-> err, data |-> data]

\* lines 1108-1116: error_message of an engine error
EngineErrorMessage(error_type, data) ==
    IF error_type = "CompileError" /\ TruthyData(data) /\ data.type = "str"
    THEN [kind |-> "compile_error", detail |-> data.text]
    ELSE IF error_type = "CompileError" /\ TruthyData(data) /\ data.type = "dict"
              /\ data.text # ""
    THEN [kind |-> "compile_error", detail |-> data.text]
    ELSE [kind |-> "engine_error", detail |-> error_type]

\* judge_code with the except clause taken by ConnectionError dropped
SendRequestNoRequestError(reply) ==
    IF reply.exception = "Timeout"
    THEN JudgeReturn(FALSE, "Timeout", [kind |-> "timeout", detail |-> ""], AbsentData)
    ELSE IF reply.exception # ""
    THEN JudgeReturn(FALSE, "UnknownError", [kind |-> "exception", detail |-> ""], AbsentData)
    ELSE IF reply.status_code >= 400
    THEN JudgeReturn(FALSE, "UnknownError", [kind |-> "exception", detail |-> ""], AbsentData)
    ELSE IF reply.body.json # "object"
    THEN JudgeReturn(FALSE, "UnknownError", [kind |-> "exception", detail |-> ""], AbsentData)
    ELSE IF TruthyStr(reply.body.err)
    THEN JudgeReturn(FALSE, reply.body.err.value,
                     EngineErrorMessage(reply.body.err.value, reply.body.data),
                     IF reply.body.data.type = "absent" THEN NullData
                     ELSE reply.body.data)
    ELSE JudgeReturn(TRUE, "", NoMessage,
                     IF reply.body.data.type = "absent" THEN ListData(<<>>)
                     ELSE reply.body.data)

\* lines 1098-1155: the try block around requests.post and its except clauses
SendRequest(reply) ==
    IF reply.exception = "Timeout"
    THEN JudgeReturn(FALSE, "Timeout", [kind |-> "timeout", detail |-> ""], AbsentData)
    ELSE IF reply.exception = "ConnectionError"
    THEN JudgeReturn(FALSE, "RequestError", [kind |-> "request_failed", detail |-> ""],
                     AbsentData)
    ELSE IF reply.exception # ""
    THEN JudgeReturn(FALSE, "UnknownError", [kind |-> "exception", detail |-> ""], AbsentData)
    ELSE IF reply.status_code >= 400                       \* raise_for_status()
    THEN JudgeReturn(FALSE, "RequestError", [kind |-> "request_failed", detail |-> ""],
                     AbsentData)
    ELSE IF reply.body.json = "invalid"                    \* response.json() raises
    THEN IF reply.json_error_is_request_exception
         THEN JudgeReturn(FALSE, "RequestError",
                          [kind |-> "request_failed", detail |-> ""], AbsentData)
         ELSE JudgeReturn(FALSE, "UnknownError",
                          [kind |-> "exception", detail |-> ""], AbsentData)
    ELSE IF reply.body.json = "list"                       \* result.get: AttributeError
    THEN JudgeReturn(FALSE, "UnknownError", [kind |-> "exception", detail |-> ""], AbsentData)
    ELSE IF TruthyStr(reply.body.err)
    THEN JudgeReturn(FALSE, reply.body.err.value,
                     EngineErrorMessage(reply.body.err.value, reply.body.data),
                     IF reply.body.data.type = "absent" THEN NullData
                     ELSE reply.body.data)
    ELSE JudgeReturn(TRUE, "", NoMessage,
                     IF reply.body.data.type = "absent" THEN ListData(<<>>)
                     ELSE reply.body.data)

\* the return of lines 1080-1084
InvalidRequest ==
    JudgeReturn(FALSE, "InvalidRequest", [kind |-> "invalid_request", detail |-> ""],
                AbsentData)

\* the most calls of judge_code a behaviour of JudgeSpec makes
MaxCalls == 2

OneTestCase == << [input |-> <<"a">>, output |-> <<"b">>] >>
TestCaseArgs == {Absent, Given(<<>>), Given(OneTestCase)}
TestCaseIdArgs == {AbsentStr, [given |-> TRUE, value |-> ""], [given |-> TRUE, value |-> "tc1"]}

NoBody == Body("invalid", AbsentStr, AbsentData)
OneResult ==
    << [result |-> 0, cpu_time |-> 50, memory |-> 1000, exit_code |-> 0, error |-> 0] >>
\* what the engine, or the network on the way to it, answers with
Replies ==
    { Reply("Timeout", 0, NoBody, TRUE),
      Reply("ConnectionError", 0, NoBody, TRUE),
      Reply("Exception", 0, NoBody, TRUE),
      Reply("", 500, NoBody, TRUE),
      Reply("", 502, NoBody, TRUE),
      Reply("", 404, NoBody, TRUE),
      Reply("", 200, Body("invalid", AbsentStr, AbsentData), TRUE),
      Reply("", 200, Body("invalid", AbsentStr, AbsentData), FALSE),
      Reply("", 200, Body("list", AbsentStr, AbsentData), TRUE),
      Reply("", 200, Body("object", [given |-> TRUE, value |-> "CompileError"],
                          StrData("e")), TRUE),
      Reply("", 200, Body("object", [given |-> TRUE, value |-> "CompileError"],
                          DictData("m")), TRUE),
      Reply("", 200, Body("object", [given |-> TRUE, value |-> "CompileError"],
                          NullData), TRUE),
      Reply("", 200, Body("object", [given |-> TRUE, value |-> "JudgeClientError"],
                          StrData("e")), TRUE),
      Reply("", 200, Body("object", AbsentStr, ListData(OneResult)), TRUE),
      Reply("", 200, Body("object", AbsentStr, ListData(<<>>)), TRUE),
      Reply("", 200, Body("object", AbsentStr, NullData), TRUE),
      Reply("", 200, Body("object", AbsentStr, AbsentData), TRUE) }

\* judge_code is called: lines 1055-1096, up to requests.post being sent
JudgeCodeCall(test_case, test_case_id) ==
    /\ judge_call.pc \in {"idle", "returned"}
    /\ judge_call.calls < MaxCalls
    /\ LET key == RequestDataKey(test_case, test_case_id)
       IN  judge_call' =
              [pc |-> IF key = "" THEN "returned" ELSE "post",
               calls |-> judge_call.calls + 1,
               posts |-> IF key = "" THEN judge_call.posts ELSE judge_call.posts + 1,
               test_case |-> test_case,
               test_case_id |-> test_case_id,
               key |-> key,
               posted |-> key # "",
               reply |-> Reply("", 0, NoBody, TRUE),
               ret |-> InvalidRequest]
    /\ UNCHANGED <<dbvars, reqvars, envvars, aggvars, run, sidevars>>

\* JudgeCodePost posting once more when the first post failed
JudgeCodePostRetries(reply) ==
    /\ judge_call.pc = "post"
    /\ judge_call' = [judge_call EXCEPT
                        !.pc = "returned", !.reply = reply,
                        !.posts = IF SendRequest(reply).success THEN @ ELSE @ + 1,
                        !.ret = SendRequest(reply)]
    /\ UNCHANGED <<dbvars, reqvars, envvars, aggvars, run, sidevars>>

\* requests.post returns or raises, and judge_code returns: lines 1098-1155
JudgeCodePost(reply) ==
    /\ judge_call.pc = "post"
    /\ judge_call' = [judge_call EXCEPT !.pc = "returned", !.reply = reply,
                                        !.ret = SendRequest(reply)]
    /\ UNCHANGED <<dbvars, reqvars, envvars, aggvars, run, sidevars>>

JudgeNext ==
    \/ \E test_case \in TestCaseArgs, test_case_id \in TestCaseIdArgs :
            JudgeCodeCall(test_case, test_case_id)
    \/ \E reply \in Replies : JudgeCodePost(reply)

JudgeSpec == Init /\ [][JudgeNext]_vars

\* judge_code as a whole: what it returns for its arguments and the reply
judge_code(test_case, test_case_id, reply) ==
    IF RequestDataKey(test_case, test_case_id) = "" THEN InvalidRequest
    ELSE SendRequest(reply)

(***************************************************************************)
(* run_test (lines 1161-1354): the self-test                               *)
(*                                                                         *)
(* Strings are sequences of characters.  A per-test result of the engine   *)
(* is [result, exit_code, error]; a member is None when the key is missing *)
(***************************************************************************)
\* str.split('|')
RECURSIVE SplitBar(_)
SplitBar(s) ==
    IF \A i \in 1..Len(s) : s[i] # "|" THEN <<s>>
    ELSE LET i == CHOOSE k \in 1..Len(s) :
                        s[k] = "|" /\ \A j \in 1..(k - 1) : s[j] # "|"
         IN  <<SubSeq(s, 1, i - 1)>> \o SplitBar(SubSeq(s, i + 1, Len(s)))

\* [s.strip() for s in demo.split('|') if s.strip()], lines 1221-1222
NonEmpty(x) == x # <<>>
SampleList(demo) ==
    LET parts == SplitBar(demo)
    IN  SelectSeq([i \in 1..Len(parts) |-> Strip(parts[i])], NonEmpty)

NoMatch == [is_matched_sample |-> FALSE, expected_output |-> <<>>]

\* lines 1214-1236: expected_output and is_matched_sample
MatchSample(input_demo, output_demo, test_input) ==
    IF input_demo # <<>> /\ output_demo # <<>>
    THEN LET input_list == SampleList(input_demo)
             output_list == SampleList(output_demo)
             hits == {i \in 1..Len(input_list) : input_list[i] = Strip(test_input)}
         IN  IF hits = {} THEN NoMatch
             ELSE LET i == CHOOSE k \in hits : \A j \in hits : k <= j
                  IN  IF i <= Len(output_list)
                      THEN [is_matched_sample |-> TRUE,
                            expected_output |-> RStrip(output_list[i])]
                      ELSE NoMatch
    ELSE NoMatch

\* dict.get(key, default) on a member that may be missing
Get(value, default) == IF value = None THEN default ELSE value

EngineResult(result, exit_code, error) ==
    [result |-> result, exit_code |-> exit_code, error |-> error]

\* ReportedResult with the override applied whatever is_matched_sample says
ReportedResultIgnoresMatch(result, is_matched_sample) ==
    LET result_code == Get(result.result, 5)
        exit_code == Get(result.exit_code, 0)
        error == Get(result.error, 0)
    IN  IF exit_code = 0 /\ error = 0 /\ result_code \notin {1, 2, 3, 4, 5}
        THEN 0
        ELSE result_code

\* ReportedResult with the override of lines 1342-1347 never applied to an
\* unknown code
ReportedResultKeepsUnknown(result, is_matched_sample) ==
    LET result_code == Get(result.result, 5)
        exit_code == Get(result.exit_code, 0)
        error == Get(result.error, 0)
    IN  IF result_code = -1 /\ ~is_matched_sample /\ exit_code = 0 /\ error = 0
        THEN 0
        ELSE result_code

\* lines 1282-1350: the result code run_test reports for the engine's result
ReportedResult(result, is_matched_sample) ==
    LET result_code == Get(result.result, 5)
        exit_code == Get(result.exit_code, 0)
        error == Get(result.error, 0)
        branched ==                                     \* lines 1318-1328
            IF result_code = -1 /\ ~is_matched_sample /\ exit_code = 0 /\ error = 0
            THEN 0
            ELSE result_code
    IN  IF ~is_matched_sample /\ exit_code = 0 /\ error = 0     \* lines 1342-1347
            /\ branched \notin {1, 2, 3, 4, 5}
        THEN 0
        ELSE branched

\* lines 1255-1266: output_text of a judge_code failure
FailureOutput(returned) ==
    LET error_data == returned.data
    IN  IF TruthyData(error_data) /\ error_data.type = "str"
        THEN [kind |-> "raw", detail |-> error_data.text]
        ELSE IF TruthyData(error_data) /\ error_data.type = "dict" /\ error_data.text # ""
        THEN [kind |-> "raw", detail |-> error_data.text]
        ELSE returned.message

RunResponse(status, result, output, error) ==
    [status |-> status, result |-> result, output |-> output, error |-> error]

\* lines 1253-1350: the response for what judge_code returned
RespondToJudge(returned, is_matched_sample) ==
    IF ~returned.success
    THEN RunResponse(200, -2, FailureOutput(returned), returned.error)
    ELSE IF returned.data.type # "list" \/ returned.data.items = <<>>
    THEN RunResponse(500, None, [kind |-> "empty_result", detail |-> ""], "")
    ELSE RunResponse(200, ReportedResult(returned.data.items[1], is_matched_sample),
                     NoMessage, "")

\* input_demo and output_demo of the problems
InputDemo ==
    (1 :> <<"a", "|", "b">>) @@ (2 :> <<"a", "|", "b">>) @@ (3 :> <<>>)
        @@ (4 :> <<" ", "a", " ", "|", " ", "|", "b">>) @@ (5 :> <<"a">>)
OutputDemo ==
    (1 :> <<"x", "|", " ", "y", " ">>) @@ (2 :> <<"x">>) @@ (3 :> <<"x">>)
        @@ (4 :> <<"x", "|", "|", "y">>) @@ (5 :> <<>>)

TestInputs == { <<>>, <<" ">>, <<"a">>, <<"b">>, <<" ", "b", " ">>, <<"c">> }

\* the early return run_test takes (lines 1177-1207), "" when the request
\* passes every check
RunRejection(pid, code, language, test_input) ==
    IF pid \notin Problems THEN "problem_not_found"
    ELSE IF Strip(code) = <<>> THEN "empty_code"
    ELSE IF language = "" THEN "empty_language"
    ELSE IF language \notin SupportedLanguages THEN "unsupported_language"
    ELSE IF Strip(test_input) = <<>> THEN "empty_test_input"
    ELSE ""

\* run_test up to the judge_code call: lines 1177-1250
RunTest(pid, code, language, test_input) ==
    /\ run.pc = "idle"
    /\ LET rejection == RunRejection(pid, code, language, test_input)
           sample == MatchSample(InputDemo[pid], OutputDemo[pid], Strip(test_input))
       IN  run' =
              IF rejection # ""
              THEN [pc |-> "done",
                    is_matched_sample |-> FALSE,
                    test_case |-> <<>>,
                    judge_calls |-> 0,
                    judge_result |-> InvalidRequest,
                    response |-> RunResponse(RejectionStatus(rejection), None,
                                             [kind |-> rejection, detail |-> ""], "")]
              ELSE [pc |-> "judge",
                    is_matched_sample |-> sample.is_matched_sample,
                    test_case |-> << [input |-> Strip(test_input),
                                      output |-> sample.expected_output] >>,
                    judge_calls |-> 0,
                    judge_result |-> InvalidRequest,
                    response |-> RunResponse(0, None, NoMessage, "")]
    /\ UNCHANGED <<dbvars, reqvars, envvars, aggvars, judge_call, sidevars>>

\* RunJudge with the user's total_submissions counted as submit_code does
RunJudgeCountsUser(reply) ==
    /\ run.pc = "judge"
    /\ LET returned == judge_code(Given(run.test_case), AbsentStr, reply)
       IN  run' = [run EXCEPT
                    !.pc = "done",
                    !.judge_calls = @ + 1,
                    !.judge_result = returned,
                    !.response = RespondToJudge(returned, run.is_matched_sample)]
    /\ db_user' = [db_user EXCEPT !["u1"].total_submissions = @ + 1]
    /\ UNCHANGED <<db_submission, db_problem_data, storage, reqvars, envvars, aggvars,
                   judge_call, sidevars>>

\* judge_code returns and run_test answers: lines 1243-1350
RunJudge(reply) ==
    /\ run.pc = "judge"
    /\ LET returned == judge_code(Given(run.test_case), AbsentStr, reply)
       IN  run' = [run EXCEPT
                    !.pc = "done",
                    !.judge_calls = @ + 1,
                    !.judge_result = returned,
                    !.response = RespondToJudge(returned, run.is_matched_sample)]
    /\ UNCHANGED <<dbvars, reqvars, envvars, aggvars, judge_call, sidevars>>

\* result codes, exit codes and error codes of the engine's single result
RunResultCodes == {-1, 0, 1, 2, 3, 4, 5, 7, None}
ExitCodes == {0, 1, None}
ErrorCodes == {0, 1, None}
\* the replies to a self-test: those of Replies, and an answer with one result
RunReplies ==
    Replies \cup
    { Reply("", 200,
            Body("object", AbsentStr, ListData(<< EngineResult(result, exit_code, error) >>)),
            TRUE) :
        result \in RunResultCodes, exit_code \in ExitCodes, error \in ErrorCodes }

RunNext ==
    \/ \E pid \in ProblemIdInputs, code \in Codes, language \in LanguageInputs,
          test_input \in TestInputs : RunTest(pid, code, language, test_input)
    \/ \E reply \in RunReplies : RunJudge(reply)

RunSpec == Init /\ [][RunNext]_vars

(***************************************************************************)
(* _load_testcases_from_minio on its own: it is called on a prefix of the  *)
(* bucket and returns.  The prefixes hold, for each ordinal, an .in object *)
(* (non-empty, empty or unreadable) or none, and an .out object (readable  *)
(* or unreadable) or none; list_objects_v2 answers with all keys at once   *)
(* or truncates the listing after the keys of an ordinal (keys are listed  *)
(* in key order, IsTruncated and NextContinuationToken announce the rest). *)
(***************************************************************************)
MaxOrdinal == 2
Ordinals == 1..MaxOrdinal

InOptions == {"Missing", "Unreadable", "Empty", "Text"}
OutOptions == {"Missing", "Unreadable", "Text"}

\* the objects <n>.in and <n>.out of one ordinal
FilesOf(n, in_option, out_option) ==
    (IF in_option = "Missing" THEN {}
     ELSE IF in_option = "Unreadable" THEN {Obj(<<n>>, "in", Unreadable)}
     ELSE IF in_option = "Empty" THEN {Obj(<<n>>, "in", <<>>)}
     ELSE {Obj(<<n>>, "in", <<"a", n>>)})
    \cup
    (IF out_option = "Missing" THEN {}
     ELSE IF out_option = "Unreadable" THEN {Obj(<<n>>, "out", Unreadable)}
     ELSE {Obj(<<n>>, "out", <<"b", n>>)})

Prefixes == [Ordinals -> [in : InOptions, out : OutOptions]]

KeysOf(prefix, ordinals) ==
    UNION {FilesOf(n, prefix[n].in, prefix[n].out) : n \in ordinals}

\* the listing of a prefix, truncated after the keys of ordinal cut (0: not truncated)
Listing(prefix, cut) ==
    LET first == KeysOf(prefix, {n \in Ordinals : cut = 0 \/ n <= cut})
        rest  == KeysOf(prefix, {n \in Ordinals : cut # 0 /\ n > cut})
    IN  IF first = {} THEN <<>>
        ELSE IF rest = {} THEN <<first>>
        ELSE <<first, rest>>

Stores ==
    {[list_error |-> e, pages |-> Listing(prefix, cut)] :
        e \in BOOLEAN, prefix \in Prefixes, cut \in 0..(MaxOrdinal - 1)}

\* every variable but load
notload == <<dbvars, reqvars, envvars, aggvars, judge_call, run,
             lang, edit, db_user_motto, profile>>

\* the loader is called for a problem whose prefix is store
LoadCall(store) ==
    /\ load.pc = "idle"
    /\ load' = [pc |-> "called", store |-> store, testcases |-> <<>>]
    /\ UNCHANGED notload

\* lines 1373-1437: the loader lists, reads and returns
LoadReturn ==
    /\ load.pc = "called"
    /\ load' = [load EXCEPT !.pc = "returned",
                            !.testcases = _load_testcases_from_minio(load.store)]
    /\ UNCHANGED notload

LoadNext ==
    \/ \E store \in Stores : LoadCall(store)
    \/ LoadReturn

LoadSpec == Init /\ [][LoadNext]_vars

(***************************************************************************)
(* update_problem (lines 459-580) next to submit_code: the view reads the  *)
(* problem with its ProblemData row (select_related('stat')), validates    *)
(* the body, and saves both objects with a plain save(), which writes      *)
(* every column of the row from the object in memory.  title stands for    *)
(* the columns it assigns (title, level, tag, auth, score).  One           *)
(* submit_code request, "r1", runs beside it.                              *)
(***************************************************************************)
Titles == {<<>>, <<" ">>, <<"t">>}

\* every variable but edit and the table problem_data
notedit == <<db_submission, db_user, storage, reqvars, envvars, aggvars, judge_call, run,
             load, lang, db_user_motto, profile>>

\* lines 482-545: the row is read, the body is validated
UpdateProblem(pid, title) ==
    /\ edit.pc = "idle"
    /\ edit' =
         IF pid \notin Problems
         THEN [pc |-> "done", problem_id |-> pid, title |-> <<>>,
               problem_data |-> ProblemDataDefaults, status |-> 404]
         ELSE IF Strip(title) = <<>>
         THEN [pc |-> "done", problem_id |-> pid, title |-> <<>>,
               problem_data |-> db_problem_data[pid], status |-> 400]
         ELSE [pc |-> "save", problem_id |-> pid, title |-> Strip(title),
               problem_data |-> db_problem_data[pid], status |-> 0]
    /\ UNCHANGED <<db_problem_data, notedit>>

\* lines 562-567: problem_data.title = title ... problem_data.save()
UpdateProblemSave ==
    /\ edit.pc = "save"
    /\ LET pd == [edit.problem_data EXCEPT !.title = edit.title]
       IN  /\ db_problem_data' = [db_problem_data EXCEPT ![edit.problem_id] = pd]
           /\ edit' = [edit EXCEPT !.pc = "done", !.problem_data = pd, !.status = 200]
    /\ UNCHANGED notedit

\* lines 568-569: a save raises, the transaction rolls back, the answer is 500
UpdateProblemRaises ==
    /\ edit.pc = "save"
    /\ edit' = [edit EXCEPT !.pc = "done", !.status = 500]
    /\ UNCHANGED <<db_problem_data, notedit>>

EditNext ==
    \/ \E u \in Users : JwtRequired("r1", u)
    \/ \E pid \in ProblemIdInputs, code \in Codes, language \in LanguageInputs :
            SubmitCode("r1", pid, code, language)
    \/ \E outcome \in ConcOutcomes : JudgeCode("r1", outcome)
    \/ Persist("r1")
    \/ \E pid \in ProblemIdInputs, title \in Titles : UpdateProblem(pid, title)
    \/ UpdateProblemSave
    \/ UpdateProblemRaises

EditSpec == Init /\ [][EditNext]_vars

(***************************************************************************)
(* _get_language_config (lines 934-1001) on its own: the identifiers       *)
(* resolved so far, each with the profile returned.  A profile keeps the   *)
(* source file name, the compile command ("" for javascript, which has no  *)
(* compile member), the run command and the seccomp rule.                  *)
(***************************************************************************)
language_configs ==
    [cpp |-> [src_name |-> "main.cpp",
              compile_command |-> "/usr/bin/g++",
              command |-> "{exe_path}",
              seccomp_rule |-> "c_cpp"],
     java |-> [src_name |-> "Main.java",
               compile_command |-> "/usr/bin/javac",
               command |-> "/usr/bin/java",
               seccomp_rule |-> "general"],
     python |-> [src_name |-> "solution.py",
                 compile_command |-> "/usr/bin/python3 -m py_compile",
                 command |-> "/usr/bin/python3",
                 seccomp_rule |-> "general"],
     javascript |-> [src_name |-> "solution.js",
                     compile_command |-> "",
                     command |-> "/usr/bin/node",
                     seccomp_rule |-> ""]]

\* language_configs.get(language, language_configs['python'])
GetLanguageConfigDefaultsPython(language) ==
    IF language \in DOMAIN language_configs
    THEN language_configs[language]
    ELSE language_configs["python"]

\* line 1001: language_configs.get(language, language_configs['cpp'])
_get_language_config(language) ==
    IF language \in DOMAIN language_configs
    THEN language_configs[language]
    ELSE language_configs["cpp"]

MaxResolves == 3
LanguageIdentifiers == SupportedLanguages \cup {"", "rust", "c", "CPP"}

\* the resolver is called with an identifier and returns
GetLanguageConfig(language) ==
    /\ Len(lang) < MaxResolves
    /\ lang' = Append(lang, [language |-> language,
                             config |-> _get_language_config(language)])
    /\ UNCHANGED <<dbvars, reqvars, envvars, aggvars, judge_call, run,
                   load, edit, db_user_motto, profile>>

LangNext == \E language \in LanguageIdentifiers : GetLanguageConfig(language)

LangSpec == Init /\ [][LangNext]_vars

(***************************************************************************)
(* user_profile, PATCH (users/views.py 453-736) next to submit_code:       *)
(* jwt_required reads the user's row, the view assigns the fields found    *)
(* in the body and saves with update_fields, the list of the fields it     *)
(* assigned.  motto stands for the profile fields (username, email,        *)
(* gender, motto, avatar_url, student_id, class_name, real_name).  One     *)
(* submit_code request, "r1", runs beside it.                              *)
(***************************************************************************)
MottoLimit == 80
LongMotto == [i \in 1..(MottoLimit + 1) |-> "m"]
\* the member motto of the body: missing, or a string
MottoArgs == {Absent, Given(<<>>), Given(<<" ", "m">>), Given(<<"n">>), Given(LongMotto)}

\* every variable but profile and the column motto
notprofile == <<dbvars, reqvars, envvars, aggvars, judge_call, run, load, lang, edit>>

\* jwt_required, lines 172-180: request.user = User.objects.get(id=user_id)
ProfileJwtRequired(u) ==
    /\ profile.pc = "idle"
    /\ profile' = [pc |-> "view",
                   user |-> [id |-> u,
                             total_submissions |-> db_user[u].total_submissions,
                             accepted_submissions |-> db_user[u].accepted_submissions,
                             motto |-> db_user_motto[u]],
                   update_fields |-> {},
                   status |-> 0]
    /\ UNCHANGED <<db_user_motto, notprofile>>

\* lines 541-552 and 688-703: the member is validated and assigned, and
\* user.save(update_fields=update_fields) writes the fields assigned
UserProfile(motto) ==
    /\ profile.pc = "view"
    /\ IF ~motto.given
       THEN \* no field to update, lines 694-696
            /\ profile' = [profile EXCEPT !.pc = "done", !.status = 200]
            /\ UNCHANGED db_user_motto
       ELSE IF Len(Strip(motto.value)) > MottoLimit
       THEN /\ profile' = [profile EXCEPT !.pc = "done", !.status = 400]
            /\ UNCHANGED db_user_motto
       ELSE /\ profile' = [profile EXCEPT !.pc = "done", !.status = 200,
                                          !.user.motto = Strip(motto.value),
                                          !.update_fields = {"motto"}]
            /\ db_user_motto' =
                  [db_user_motto EXCEPT ![profile.user.id] = Strip(motto.value)]
    /\ UNCHANGED notprofile

\* lines 730-734: the save raises, the answer is 500
UserProfileRaises(motto) ==
    /\ profile.pc = "view"
    /\ motto.given /\ Len(Strip(motto.value)) <= MottoLimit
    /\ profile' = [profile EXCEPT !.pc = "done", !.status = 500,
                                  !.user.motto = Strip(motto.value),
                                  !.update_fields = {"motto"}]
    /\ UNCHANGED <<db_user_motto, notprofile>>

ProfileNext ==
    \/ \E u \in Users : JwtRequired("r1", u)
    \/ \E pid \in ProblemIdInputs, code \in Codes, language \in LanguageInputs :
            SubmitCode("r1", pid, code, language)
    \/ \E outcome \in ConcOutcomes : JudgeCode("r1", outcome)
    \/ Persist("r1")
    \/ \E u \in Users : ProfileJwtRequired(u)
    \/ \E motto \in MottoArgs : UserProfile(motto)
    \/ \E motto \in MottoArgs : UserProfileRaises(motto)

ProfileSpec == Init /\ [][ProfileNext]_vars

(***************************************************************************)
(* Properties                                                              *)
(***************************************************************************)
Rows == 1..Len(db_submission)
RowsOf(p) == {i \in Rows : db_submission[i].problem = p}
RowsOfStatus(p, status) == {i \in RowsOf(p) : db_submission[i].status = status}
StatusSum(pd) == pd.ac + pd.wr + pd.tle + pd.mle + pd.re + pd.ce

\* the request created a submission row
Created(r) == submission[r].submission_id # 0
\* the view has returned a response for the request
Returned(r) == alive[r] /\ pc[r] = "done"
\* every request that was started has been answered
Completed == \A r \in Requests : alive[r] /\ pc[r] \in {"idle", "done"}
\* no exception was raised in any request
NoException == faults = 0 /\ \A r \in Requests : exc[r] = "none"

\* C1 as stated: after every run of submit_code that created a row, whatever
\* its terminal status, the problem's submission counter equals the sum of its
\* six per-status counters.
C1_SumAfterEveryRun ==
    \A r \in Requests :
        Returned(r) /\ Created(r) =>
            db_problem_data[problem_id[r]].submission
                = StatusSum(db_problem_data[problem_id[r]])

\* C1 amended: in every state the sum of a problem's per-status counters is at
\* most its submission counter, and the two are equal as long as none of the
\* problem's submissions has the status SystemError (a status no counter counts).
C1_SumUnlessSystemError ==
    \A p \in Problems :
        /\ StatusSum(db_problem_data[p]) <= db_problem_data[p].submission
        /\ RowsOfStatus(p, STATUS_SYSTEM_ERROR) = {} =>
                StatusSum(db_problem_data[p]) = db_problem_data[p].submission

\* two requests to one problem have returned, a Wrong Answer among them and no
\* SystemError, and both are counted
C1_Witness ==
    \E p \in Problems :
        /\ Completed
        /\ Cardinality(RowsOf(p)) = 2
        /\ RowsOfStatus(p, STATUS_WRONG_ANSWER) # {}
        /\ RowsOfStatus(p, STATUS_SYSTEM_ERROR) = {}
        /\ db_problem_data[p].submission = 2
        /\ StatusSum(db_problem_data[p]) = 2

\* C2: when the requests were served one after another and each was answered
\* by submit_code itself (no exception left the except handler), every problem's
\* submission counter equals the number of submission rows created for it.
C2_OneIncrementPerRow ==
    Completed /\ (\A r \in Requests : exc[r] \notin ExceptStatements) =>
        \A p \in Problems : db_problem_data[p].submission = Cardinality(RowsOf(p))

\* C3: a terminal status, once persisted in a submission row, is never replaced
\* by a different status.
C3_TerminalOnce ==
    [][\A i \in Rows :
          db_submission[i].status \in TerminalStatuses =>
              db_submission'[i].status = db_submission[i].status]_vars

\* C4: once submit_code has been answered for a request that created a row, the
\* row is no longer Judging.
C4_NeverLeftJudging ==
    \A r \in Requests :
        Returned(r) /\ Created(r) =>
            db_submission[submission[r].submission_id].status # STATUS_JUDGING

\* C5: after concurrent requests have all returned without any exception, each
\* problem's submission counter equals the number of its rows and each per-status
\* counter equals the number of its rows that ended in that status.
C5_NoLostProblemIncrement ==
    Completed /\ NoException =>
        \A p \in Problems :
            LET pd == db_problem_data[p]
            IN  /\ pd.submission = Cardinality(RowsOf(p))
                /\ pd.ac = Cardinality(RowsOfStatus(p, STATUS_ACCEPTED))
                /\ pd.wr = Cardinality(RowsOfStatus(p, STATUS_WRONG_ANSWER))
                /\ pd.tle = Cardinality(RowsOfStatus(p, STATUS_TIME_LIMIT_EXCEEDED))
                /\ pd.mle = Cardinality(RowsOfStatus(p, STATUS_MEMORY_LIMIT_EXCEEDED))
                /\ pd.re = Cardinality(RowsOfStatus(p, STATUS_RUNTIME_ERROR))
                /\ pd.ce = Cardinality(RowsOfStatus(p, STATUS_COMPILE_ERROR))

\* C6: after concurrent requests have all returned without any exception, each
\* user's total_submissions equals the number of the user's rows that received
\* an aggregated verdict and accepted_submissions the number of those Accepted.
C6_NoLostUserIncrement ==
    Completed /\ NoException =>
        \A u \in Users :
            LET judged == {i \in Rows : /\ db_submission[i].user = u
                                        /\ db_submission[i].result.kind = "test_results"}
            IN  /\ db_user[u].total_submissions = Cardinality(judged)
                /\ db_user[u].accepted_submissions =
                      Cardinality({i \in judged :
                                      db_submission[i].status = STATUS_ACCEPTED})

\* the save() calls of each branch of submit_code that finalize a submission
WriteUnits ==
    { {"submission", "problem_data", "user"},
      {"fail_submission", "fail_problem_data"},
      {"except_submission", "except_problem_data"} }

\* C7: when submit_code has answered a request (a write may have failed on the
\* way, no exception left the view), each branch's finalizing writes were
\* applied all together or not at all.
C7_AllOrNothing ==
    \A r \in Requests :
        Returned(r) /\ exc[r] \notin ExceptStatements =>
            \A unit \in WriteUnits :
                written[r] \cap unit = {} \/ unit \subseteq written[r]

\* positions of the results whose code is not 0
Failing(results) == {i \in 1..Len(results) : results[i].result # 0}
\* the greatest element of a non-empty finite set of integers
MaxOf(S) == CHOOSE m \in S : \A x \in S : x <= m
\* the least element of a non-empty finite set of integers
MinOf(S) == CHOOSE m \in S : \A x \in S : m <= x
\* the verdict a result array must get: Accepted when no code differs from 0,
\* otherwise the class of the first code that does
FirstFailureStatus(results) ==
    IF Failing(results) = {} THEN STATUS_ACCEPTED
    ELSE LET code == results[MinOf(Failing(results))].result
         IN  CASE code = -1 -> STATUS_WRONG_ANSWER
               [] code \in {1, 2} -> STATUS_TIME_LIMIT_EXCEEDED
               [] code = 3 -> STATUS_MEMORY_LIMIT_EXCEEDED
               [] code = 4 -> STATUS_RUNTIME_ERROR
               [] OTHER -> STATUS_SYSTEM_ERROR

\* C8: after any prefix of a result array was scanned the loop's final status
\* is Accepted when every code so far is 0 and otherwise the class of the first
\* code that is not 0, and that is the status saved in the row when the loop ends.
C8_FirstFailureWins ==
    /\ FinalStatus(loop) = FirstFailureStatus(test_results)
    /\ pc["r1"] # "loop" =>
            db_submission[1].status = FirstFailureStatus(test_results)

\* the codes 0, 0, 3, -1, 0 were scanned and the row was saved as
\* MemoryLimitExceeded
C8_Witness ==
    /\ pc["r1"] # "loop"
    /\ [i \in 1..Len(test_results) |-> test_results[i].result] = <<0, 0, 3, -1, 0>>
    /\ db_submission[1].status = STATUS_MEMORY_LIMIT_EXCEEDED

\* C9: after any prefix of a result array was scanned the loop's peaks are the
\* maxima of cpu_time and of memory over all results so far (0 when there is
\* none), whatever their codes, and these are the peaks saved in the row.
C9_PeakOverAllResults ==
    LET peak_cpu == MaxOf({0} \cup {test_results[i].cpu_time : i \in 1..Len(test_results)})
        peak_mem == MaxOf({0} \cup {test_results[i].memory : i \in 1..Len(test_results)})
    IN  /\ loop.max_cpu_time_used = peak_cpu
        /\ loop.max_memory_used = peak_mem
        /\ pc["r1"] # "loop" =>
                /\ db_submission[1].cpu_time = peak_cpu
                /\ db_submission[1].memory = peak_mem

\* cpu_time 50, 900, 200 and memory 1000, 500, 2000 were scanned, the first
\* result being the failing one, and the row was saved with 900 and 2000
C9_Witness ==
    /\ pc["r1"] # "loop"
    /\ test_results = << Result(-1, 50, 1000), Result(0, 900, 500), Result(3, 200, 2000) >>
    /\ db_submission[1].status = STATUS_WRONG_ANSWER
    /\ db_submission[1].cpu_time = 900
    /\ db_submission[1].memory = 2000

\* C10: a problem for which the loader yields an empty list never gets a
\* submission row and its counters stay untouched; a request rejected for the
\* lack of test cases is answered 400, created no row, made no judge call and
\* saved nothing.
C10_EmptyLoaderRejects ==
    /\ \A p \in Problems :
            _load_testcases_from_minio(storage[p]) = <<>> =>
                /\ RowsOf(p) = {}
                /\ db_problem_data[p] = ProblemDataDefaults
    /\ \A r \in Requests :
            response[r].message = "no_testcases" =>
                /\ response[r].status = 400
                /\ submission[r].submission_id = 0
                /\ judge_calls[r] = 0
                /\ written[r] = {}

\* one request to the problem with no objects and one to the problem whose
\* listing fails were both rejected, and the database is as it was initially
C10_Witness ==
    /\ \E r \in Requests :
            /\ Returned(r) /\ problem_id[r] = 2
            /\ storage[2] = StoreEmpty
            /\ response[r].message = "no_testcases"
    /\ \E r \in Requests :
            /\ Returned(r) /\ problem_id[r] = 3
            /\ storage[3] = StoreListError
            /\ response[r].message = "no_testcases"
    /\ db_submission = <<>>
    /\ \A u \in Users : db_user[u].total_submissions = 0

\* a request that must be rejected: the problem does not exist, the code is
\* empty or blank, or the language is none of the four
InvalidInput(pid, code, language) ==
    \/ pid \notin Problems
    \/ \A i \in 1..Len(code) : code[i] = " "
    \/ language \notin {"cpp", "java", "python", "javascript"}

\* C11: the step of submit_code that handles a request with a missing problem,
\* empty or whitespace-only code or an unsupported language answers it with a
\* 4xx status, creates no submission row and changes no record of the database.
C11_InvalidInputRejected ==
    [][\A r \in Requests :
         pc[r] = "view" /\ pc'[r] # "view" =>
            \/ /\ pc'[r] = "done"
               /\ response'[r].status \in 400..499
               /\ submission'[r].submission_id = 0
               /\ UNCHANGED dbvars
            \/ \A pid \in ProblemIdInputs, code \in Codes, language \in LanguageInputs :
                  InvalidInput(pid, code, language) => ~SubmitCode(r, pid, code, language)]_vars

\* one request was rejected for a missing problem and another for its code,
\* and the database is as it was initially
C11_Witness ==
    /\ \E r \in Requests :
            Returned(r) /\ response[r] = [status |-> 404, message |-> "problem_not_found"]
    /\ \E r \in Requests :
            Returned(r) /\ response[r] = [status |-> 400, message |-> "empty_code"]
    /\ db_submission = <<>>
    /\ \A p \in Problems : db_problem_data[p] = ProblemDataDefaults
    /\ \A u \in Users : db_user[u].total_submissions = 0

\* C12: in the branch taken when judge_code reports failure, the save of the
\* submission writes CompileError when the error kind is CompileError and
\* SystemError for any other kind and touches no counter, and the save of the
\* problem counters adds one to submission, one to ce only for CompileError,
\* nothing to any other counter, and leaves the user's counters alone.
C12_JudgeFailureFinalized ==
    [][\A r \in Requests :
         LET compile_error == judge_result[r].error = "CompileError"
             pid == problem_id[r]
         IN  /\ pc[r] = "fail_save_submission" /\ pc'[r] = "fail_get_problem_data" =>
                    /\ db_submission'[submission[r].submission_id].status =
                          (IF compile_error THEN STATUS_COMPILE_ERROR
                                            ELSE STATUS_SYSTEM_ERROR)
                    /\ UNCHANGED <<db_problem_data, db_user>>
             /\ pc[r] = "fail_get_problem_data" /\ pc'[r] = "fail_save_problem_data" =>
                    UNCHANGED dbvars
             /\ pc[r] = "fail_save_problem_data" /\ pc'[r] = "done" =>
                    /\ db_problem_data' =
                          [db_problem_data EXCEPT ![pid] =
                              [@ EXCEPT !.submission = @ + 1,
                                        !.ce = IF compile_error THEN @ + 1 ELSE @]]
                    /\ UNCHANGED <<db_submission, db_user>>
                    /\ response'[r].status = 200]_vars

\* a request whose judge_code call timed out was answered: its row says
\* SystemError, the problem has one submission and no per-status count, and no
\* user counter moved
C12_Witness ==
    \E r \in Requests :
        /\ Returned(r)
        /\ written[r] = {"fail_submission", "fail_problem_data"}
        /\ db_submission[submission[r].submission_id].status = STATUS_SYSTEM_ERROR
        /\ db_submission[submission[r].submission_id].result =
                [kind |-> "judge_error", error |-> "Timeout"]
        /\ db_problem_data[problem_id[r]] = [ProblemDataDefaults EXCEPT !.submission = 1]
        /\ \A u \in Users : db_user[u].total_submissions = 0

\* the step of the judged branch that saves the submission persists the
\* aggregated status of the engine's results and touches no counter
JudgedStatusPersisted(r) ==
    pc[r] = "save_submission" /\ pc'[r] = "get_problem_data" =>
        /\ db_submission'[submission[r].submission_id].status =
                FirstFailureStatus(judge_result[r].data)
        /\ UNCHANGED <<db_problem_data, db_user>>

\* the step of the judged branch that saves the user adds one to
\* total_submissions and one to accepted_submissions exactly for Accepted
JudgedUserCounted(r) ==
    pc[r] = "save_user" /\ pc'[r] = "done" =>
        /\ db_user' =
              [db_user EXCEPT ![user[r].id] =
                  [total_submissions |-> @.total_submissions + 1,
                   accepted_submissions |->
                        IF FirstFailureStatus(judge_result[r].data) = STATUS_ACCEPTED
                        THEN @.accepted_submissions + 1
                        ELSE @.accepted_submissions]]
        /\ UNCHANGED <<db_submission, db_problem_data>>

\* pd with one more submission and one more of the verdict's own counter
WithVerdict(pd, status) ==
    LET counted == [pd EXCEPT !.submission = @ + 1]
    IN  CASE status = STATUS_ACCEPTED -> [counted EXCEPT !.ac = @ + 1]
          [] status = STATUS_WRONG_ANSWER -> [counted EXCEPT !.wr = @ + 1]
          [] status = STATUS_TIME_LIMIT_EXCEEDED -> [counted EXCEPT !.tle = @ + 1]
          [] status = STATUS_MEMORY_LIMIT_EXCEEDED -> [counted EXCEPT !.mle = @ + 1]
          [] status = STATUS_RUNTIME_ERROR -> [counted EXCEPT !.re = @ + 1]
          [] OTHER -> counted

\* C13 as stated: when judge_code succeeded the aggregated status is persisted,
\* the problem's submission counter and exactly one per-status counter, the one
\* of the final status, grow by one whatever the final status is, and the user
\* gets one more total submission and one more accepted one exactly for Accepted.
C13_MatchingCounterAlways ==
    [][\A r \in Requests :
         /\ JudgedStatusPersisted(r)
         /\ pc[r] = "save_problem_data" /\ pc'[r] = "save_user" =>
                LET before == db_problem_data[problem_id[r]]
                    after == db_problem_data'[problem_id[r]]
                IN  /\ after.submission = before.submission + 1
                    /\ StatusSum(after) = StatusSum(before) + 1
                    /\ after = WithVerdict(before, FirstFailureStatus(judge_result[r].data))
         /\ JudgedUserCounted(r)]_vars

\* C13 amended: as above, except that a final status of SystemError (a result
\* code the aggregator does not classify) has no counter: then the problem's
\* submission counter alone grows by one.
C13_MatchingCounterUnlessSystemError ==
    [][\A r \in Requests :
         /\ JudgedStatusPersisted(r)
         /\ pc[r] = "save_problem_data" /\ pc'[r] = "save_user" =>
                LET before == db_problem_data[problem_id[r]]
                    status == FirstFailureStatus(judge_result[r].data)
                IN  /\ db_problem_data' =
                          [db_problem_data EXCEPT ![problem_id[r]] =
                              WithVerdict(before, status)]
                    /\ StatusSum(db_problem_data'[problem_id[r]]) =
                          StatusSum(before) + (IF status = STATUS_SYSTEM_ERROR THEN 0 ELSE 1)
                    /\ UNCHANGED <<db_submission, db_user>>
         /\ JudgedUserCounted(r)]_vars

\* one user's two requests were judged without any exception, one Accepted and
\* one SystemError: two submissions, one of them counted as ac, two in the
\* user's total, one accepted
C13_Witness ==
    /\ faults = 0 /\ crashes = 0
    /\ \A r \in Requests : Returned(r) /\ written[r] = {"submission", "problem_data", "user"}
    /\ \E r \in Requests :
            db_submission[submission[r].submission_id].status = STATUS_ACCEPTED
    /\ \E r \in Requests :
            db_submission[submission[r].submission_id].status = STATUS_SYSTEM_ERROR
    /\ db_problem_data[1] = [ProblemDataDefaults EXCEPT !.submission = 2, !.ac = 1]
    /\ \E u \in Users :
            db_user[u] = [total_submissions |-> 2, accepted_submissions |-> 1]

\* judge_code has returned from the call with these arguments
Returns == judge_call.pc = "returned"
\* an argument of the call in progress was supplied: a list that is given and
\* not empty, a reference id that is given and not empty
ListSupplied == judge_call.test_case.given /\ Len(judge_call.test_case.value) > 0
RefSupplied == judge_call.test_case_id.given /\ judge_call.test_case_id.value # ""

\* C18: a call of judge_code with neither a non-empty inline list nor a
\* reference id is never waiting for the engine: it has returned the failure
\* InvalidRequest without sending a request.
C18_NeitherIsInvalid ==
    judge_call.pc # "idle" /\ ~ListSupplied /\ ~RefSupplied =>
        /\ Returns
        /\ ~judge_call.posted
        /\ ~judge_call.ret.success
        /\ judge_call.ret.error = "InvalidRequest"

\* a first call with an empty list and no reference id returned InvalidRequest
\* and no request was ever sent
C18_Witness ==
    /\ Returns
    /\ judge_call.calls = 1
    /\ judge_call.test_case = Given(<<>>)
    /\ judge_call.test_case_id = AbsentStr
    /\ judge_call.ret.error = "InvalidRequest"
    /\ judge_call.posts = 0

\* C19: a call of judge_code with both a non-empty inline list and a reference
\* id is treated like one with neither: it returns the failure InvalidRequest
\* without sending a request.
C19_BothIsInvalid ==
    judge_call.pc # "idle" /\ ListSupplied /\ RefSupplied =>
        /\ Returns
        /\ ~judge_call.posted
        /\ ~judge_call.ret.success
        /\ judge_call.ret.error = "InvalidRequest"

\* C20: a call that sent its request returns a failure of kind Timeout when
\* the request timed out, RequestError when the connection was refused or the
\* status is 5xx, UnknownError for any other exception (one raised by
\* requests.post, or by reading a body that is JSON but no object), some failure
\* for a 4xx status or a body that is no JSON, the engine's err as the kind
\* when the body carries one, and success only when the body is an object
\* without err.
C20_TransportClassified ==
    Returns /\ judge_call.posted =>
        LET reply == judge_call.reply
            ret == judge_call.ret
            answered == reply.exception = "" /\ reply.status_code < 400
        IN  /\ reply.exception = "Timeout" => ~ret.success /\ ret.error = "Timeout"
            /\ reply.exception = "ConnectionError" =>
                    ~ret.success /\ ret.error = "RequestError"
            /\ reply.exception = "" /\ reply.status_code >= 500 =>
                    ~ret.success /\ ret.error = "RequestError"
            /\ reply.exception = "" /\ reply.status_code \in 400..499 => ~ret.success
            /\ reply.exception \notin {"", "Timeout", "ConnectionError"} =>
                    ~ret.success /\ ret.error = "UnknownError"
            /\ answered /\ reply.body.json = "invalid" =>
                    ~ret.success /\ ret.error \in {"RequestError", "UnknownError"}
            /\ answered /\ reply.body.json = "list" =>
                    ~ret.success /\ ret.error = "UnknownError"
            /\ answered /\ reply.body.json = "object" /\ reply.body.err.given =>
                    ~ret.success /\ ret.error = reply.body.err.value
            /\ ret.success <=>
                    answered /\ reply.body.json = "object" /\ ~reply.body.err.given

\* a call was answered 502 and returned the failure RequestError
C20_Witness ==
    /\ Returns /\ judge_call.posted
    /\ judge_call.reply.exception = "" /\ judge_call.reply.status_code = 502
    /\ ~judge_call.ret.success
    /\ judge_call.ret.error = "RequestError"

\* run_test has answered a request that passed validation and called judge_code
RunJudged == run.pc = "done" /\ run.test_case # <<>>
\* judge_code succeeded with a result to report, the engine's single result
RunHasResult ==
    /\ RunJudged
    /\ run.judge_result.success
    /\ run.judge_result.data.type = "list"
    /\ run.judge_result.data.items # <<>>
\* the engine's single result ran to completion: exit code 0 and error 0
\* (the values run_test reads when the engine leaves them out)
RanClean ==
    LET result == run.judge_result.data.items[1]
    IN  /\ result.exit_code \in {0, None}
        /\ result.error \in {0, None}

\* C14: no step of run_test, on any of its paths, creates or changes a
\* submission row, a problem's counters or a user's counters.
C14_RunTestWritesNothing ==
    [][run' # run => UNCHANGED <<db_submission, db_problem_data, db_user>>]_vars

\* a self-test ran on a sample and was answered with the engine's verdict,
\* and there is no submission row and no counter that moved
C14_Witness ==
    /\ RunHasResult
    /\ run.is_matched_sample
    /\ run.response.status = 200
    /\ db_submission = <<>>
    /\ \A p \in Problems : db_problem_data[p] = ProblemDataDefaults
    /\ \A u \in Users : db_user[u] = [total_submissions |-> 0, accepted_submissions |-> 0]

\* C15 as stated: when the input matched no sample and the engine's result ran
\* to completion, run_test reports 0 whatever the engine's result code is.
C15_CleanRunAlwaysAccepted ==
    /\ RunHasResult /\ ~run.is_matched_sample
    /\ run.judge_result.data.items[1].result # None
    /\ run.judge_result.data.items[1].exit_code = 0
    /\ run.judge_result.data.items[1].error = 0
    => run.response.result = 0

\* C15 amended: when the input matched no sample and the engine's result ran
\* to completion, run_test reports 0 unless the engine's result code is one of
\* 1, 2, 3, 4, 5 (5 also when the engine gave none), which it reports unchanged.
C15_CleanRunAcceptedUnlessLimitOrError ==
    RunHasResult /\ ~run.is_matched_sample /\ RanClean =>
        LET code == run.judge_result.data.items[1].result
        IN  run.response.result =
                (IF code = None THEN 5 ELSE IF code \in 1..5 THEN code ELSE 0)

\* an input that is no sample got the unknown code 7 from the engine, with
\* exit code 0 and error 0, and was reported as 0
C15_Witness ==
    /\ RunHasResult
    /\ ~run.is_matched_sample
    /\ run.judge_result.data.items[1] = EngineResult(7, 0, 0)
    /\ run.response = RunResponse(200, 0, NoMessage, "")

\* C16: for an engine result with code -1, exit code 0 and error 0, run_test
\* reports 0 when the input matched no sample and -1 when it matched one; and
\* whenever the input matched a sample it reports the engine's code as it is.
C16_SampleVerdictTrusted ==
    RunHasResult =>
        LET result == run.judge_result.data.items[1]
        IN  /\ result = EngineResult(-1, 0, 0) =>
                    run.response.result = (IF run.is_matched_sample THEN -1 ELSE 0)
            /\ run.is_matched_sample /\ result.result # None =>
                    run.response.result = result.result

\* the input was the second sample of a problem, the engine answered -1 with
\* exit code 0 and error 0, and -1 was reported
C16_Witness ==
    /\ RunHasResult
    /\ run.is_matched_sample
    /\ run.test_case = << [input |-> <<"b">>, output |-> <<"y">>] >>
    /\ run.judge_result.data.items[1] = EngineResult(-1, 0, 0)
    /\ run.response.result = -1

\* C17: whenever judge_code reported a failure to run_test, or succeeded with
\* nothing to report, run_test answered 200 with result -2, never a 5xx.
C17_FailureAnswered200 ==
    RunJudged /\ ~RunHasResult =>
        /\ run.response.status = 200
        /\ run.response.result = -2

\* the loader has returned for a prefix whose listing came back in one piece
Loaded == load.pc = "returned" /\ ~load.store.list_error
AllKeys == UNION {load.store.pages[i] : i \in 1..Len(load.store.pages)}
ReadableIn(keys, n) ==
    {o \in keys : o.num = <<n>> /\ o.ext = "in" /\ o.body # Unreadable}
ReadableOut(keys, n) ==
    {o \in keys : o.num = <<n>> /\ o.ext = "out" /\ o.body # Unreadable}

\* one test case per ordinal from n on that has a readable .in object
RECURSIVE Paired(_, _)
Paired(keys, n) ==
    IF n > MaxOrdinal THEN <<>>
    ELSE (IF ReadableIn(keys, n) = {} THEN <<>>
          ELSE << [input |-> (CHOOSE o \in ReadableIn(keys, n) : TRUE).body,
                   output |-> IF ReadableOut(keys, n) = {} THEN <<>>
                              ELSE (CHOOSE o \in ReadableOut(keys, n) : TRUE).body] >>)
         \o Paired(keys, n + 1)

\* C21: when the listing of the prefix is answered in one page, the loader
\* returns exactly one test case per ordinal that has a readable .in object,
\* with the content of the readable .out object of that ordinal as expected
\* output (empty when there is none), and nothing for the other ordinals.
C21_OnePerReadableInput ==
    Loaded /\ Len(load.store.pages) <= 1 => load.testcases = Paired(AllKeys, 1)

\* C24: the loader returns the test cases of all keys under the prefix, also
\* when the listing is truncated into several pages.
C24_AllPagesLoaded ==
    Loaded =>
        load.testcases =
            CollectTestcases(AllKeys, Sorted({o.num : o \in AllKeys}))

\* C22: in the handler of "except Exception", the save of the submission marks
\* the row SystemError with the exception text as payload and touches no
\* counter, and the save of the problem counters, when it takes effect, adds
\* one to submission and nothing to any other counter or to the user's
\* counters, and the caller is answered with status 500.
C22_ExceptionFinalized ==
    [][\A r \in Requests :
         LET pid == problem_id[r]
         IN  /\ pc[r] = "except_save_submission" /\ pc'[r] = "except_get_problem_data" =>
                    /\ db_submission'[submission[r].submission_id].status =
                          STATUS_SYSTEM_ERROR
                    /\ db_submission'[submission[r].submission_id].result =
                          [kind |-> "exception", error |-> exc[r]]
                    /\ UNCHANGED <<db_problem_data, db_user>>
             /\ pc[r] = "except_get_problem_data" /\ pc'[r] = "except_save_problem_data" =>
                    UNCHANGED dbvars
             /\ pc[r] = "except_save_problem_data" /\ pc'[r] = "done"
                  /\ exc'[r] = exc[r] =>
                    /\ db_problem_data' =
                          [db_problem_data EXCEPT ![pid] = [@ EXCEPT !.submission = @ + 1]]
                    /\ UNCHANGED <<db_submission, db_user>>
                    /\ response'[r].status = 500]_vars

\* a request whose first save of the submission raised was answered 500: its
\* row says SystemError and carries the exception, the problem has one
\* submission and no per-status count, and no user counter moved
C22_Witness ==
    \E r \in Requests :
        /\ Returned(r) /\ Created(r)
        /\ exc[r] = "save_submission"
        /\ response[r].status = 500
        /\ db_submission[submission[r].submission_id].status = STATUS_SYSTEM_ERROR
        /\ db_submission[submission[r].submission_id].result =
              [kind |-> "exception", error |-> "save_submission"]
        /\ db_problem_data[problem_id[r]] = [ProblemDataDefaults EXCEPT !.submission = 1]
        /\ \A u \in Users : db_user[u].total_submissions = 0

\* the seven counters of a ProblemData row
Counters(pd) == <<pd.submission, pd.ac, pd.wr, pd.tle, pd.mle, pd.re, pd.ce>>

\* C23: no step of update_problem changes a counter of any problem, whatever
\* submit_code does in between.
C23_OnlySubmitCodeCounts ==
    [][edit' # edit =>
         \A p \in Problems : Counters(db_problem_data'[p]) = Counters(db_problem_data[p])]_vars

\* the positions of the samples of input_demo that equal the trimmed input
SamplesEqual(pid, test_input) ==
    {i \in 1..Len(SplitBar(InputDemo[pid])) :
        Strip(SplitBar(InputDemo[pid])[i]) = Strip(test_input)}

\* C25: run_test, for a request it accepts, marks the input as matching a
\* sample exactly when the trimmed input equals one of the samples of
\* input_demo, sends the sample output at the same position with its trailing
\* whitespace removed as expected output, and sends an empty expected output
\* when the input equals no sample.
C25_SampleOutputExpected ==
    [][\A pid \in Problems, code \in Codes, language \in LanguageInputs,
          test_input \in TestInputs :
            RunTest(pid, code, language, test_input)
                /\ RunRejection(pid, code, language, test_input) = "" =>
            LET hits == SamplesEqual(pid, test_input)
                outputs == SplitBar(OutputDemo[pid])
                i == CHOOSE k \in hits : \A j \in hits : k <= j
            IN  IF hits = {}
                THEN /\ ~run'.is_matched_sample
                     /\ run'.test_case[1].output = <<>>
                ELSE /\ run'.is_matched_sample
                     /\ i <= Len(outputs) =>
                            run'.test_case[1].output = RStrip(outputs[i])]_vars

\* C26: a call of judge_code posts to the engine exactly once when it is given
\* a test case list or a test case reference and not at all otherwise, and
\* posts nothing more while the call waits and returns, whatever the reply.
C26_OnePostPerCall ==
    [][/\ judge_call'.calls = judge_call.calls + 1 =>
            judge_call'.posts =
                judge_call.posts + (IF ListSupplied' \/ RefSupplied' THEN 1 ELSE 0)
       /\ judge_call'.calls = judge_call.calls => judge_call'.posts = judge_call.posts]_vars

\* a call whose post timed out has returned Timeout after one post
C26_Witness ==
    /\ Returns
    /\ judge_call.calls = 1
    /\ judge_call.posts = 1
    /\ judge_call.ret.error = "Timeout"

\* submit_code calls judge_code at most once per request
C26_SubmitCodeCallsOnce == \A r \in Requests : judge_calls[r] <= 1

\* run_test calls judge_code at most once per request, and once when it answers
\* a request it accepted
C26_RunTestCallsOnce ==
    run.pc # "idle" =>
        /\ run.judge_calls <= 1
        /\ RunJudged => run.judge_calls = 1

\* C27: every identifier resolved got a profile: the four supported
\* identifiers each their own, four different ones, and any other identifier
\* the profile of cpp.
C27_FallsBackToCpp ==
    /\ \A i \in 1..Len(lang) :
          lang[i].config =
              (IF lang[i].language \in SupportedLanguages
               THEN language_configs[lang[i].language]
               ELSE language_configs["cpp"])
    /\ \A i, j \in 1..Len(lang) :
          /\ lang[i].language \in SupportedLanguages
          /\ lang[j].language \in SupportedLanguages
          /\ lang[i].language # lang[j].language
          => lang[i].config # lang[j].config

\* "rust" was resolved to the profile of cpp, then "java" to its own
C27_Witness ==
    /\ Len(lang) = 2
    /\ lang[1].language = "rust" /\ lang[1].config.src_name = "main.cpp"
    /\ lang[2].language = "java" /\ lang[2].config.src_name = "Main.java"

\* C28: every submission row that says Accepted records at least one
\* per-test-case result, all of them with code 0.
C28_AcceptedNeedsResults ==
    \A i \in Rows :
        db_submission[i].status = STATUS_ACCEPTED =>
            /\ db_submission[i].result.kind = "test_results"
            /\ db_submission[i].result.total_tests >= 1
            /\ db_submission[i].result.passed_tests = db_submission[i].result.total_tests

\* C29: in every state, whatever the interleaving of the requests, no problem
\* has more accepted than submitted and no user more accepted submissions than
\* total submissions.
C29_AcceptedWithinTotal ==
    /\ \A p \in Problems : db_problem_data[p].ac <= db_problem_data[p].submission
    /\ \A u \in Users : db_user[u].accepted_submissions <= db_user[u].total_submissions

\* two requests of one user for one problem ran side by side and both were
\* Accepted; each overwrote the other's counters, which say one of one
C29_Witness ==
    /\ Completed
    /\ Cardinality(RowsOfStatus(1, STATUS_ACCEPTED)) = 2
    /\ db_problem_data[1].submission = 1
    /\ db_problem_data[1].ac = 1
    /\ \E u \in Users : db_user[u] = [total_submissions |-> 1, accepted_submissions |-> 1]

\* C30: a step of submit_code changes no profile column of any user and, of
\* the counters, only those of the request's user; a step of user_profile
\* changes no counter of any user and no profile column but the one it was
\* given, of its own user.
C30_DisjointColumns ==
    [][/\ (pc' # pc =>
            /\ db_user_motto' = db_user_motto
            /\ \A u \in Users : u # user["r1"].id => db_user'[u] = db_user[u])
       /\ (profile' # profile =>
            /\ db_user' = db_user
            /\ \A u \in Users :
                  db_user_motto'[u] # db_user_motto[u] =>
                      /\ u = profile.user.id
                      /\ profile'.update_fields = {"motto"}
                      /\ db_user_motto'[u] = profile'.user.motto)]_vars

\* submit_code and user_profile served the same user side by side: the profile
\* request read the row before submit_code counted, and both writes are in the
\* row
C30_Witness ==
    /\ Returned("r1") /\ response["r1"].status = 200
    /\ profile.pc = "done" /\ profile.status = 200
    /\ profile.user.id = "u1" /\ user["r1"].id = "u1"
    /\ profile.user.total_submissions = 0
    /\ db_user["u1"].total_submissions = 1
    /\ db_user_motto["u1"] = <<"m">>

====
